---- MODULE Spec2Model ----
(***************************************************************************)
(* A model of pudb's variable view (pudb/var_view.py): the inspection-     *)
(* state store (FrameVarInfo / InspectInfo), the stringifiers, the         *)
(* recursive value walk (ValueWalker.walk_value), the three node sinks     *)
(* (BasicValueWalker, WatchValueWalker, TopAndMainVariableWalker), the     *)
(* frame assembly (make_var_view) and the rendering of a node              *)
(* (VariableWidget.rows, VariableWidget.render).  A display type that      *)
(* names a stringifier file makes get_stringifier load the file into the   *)
(* module's custom_stringifier_dict and, when that gives no                *)
(* pudb_stringifier, wait for the user in the middle of the walk.          *)
(*                                                                         *)
(* Text.  A Python string is a sequence of tokens.  Every text that goes   *)
(* into an identity path or a name (local names, attribute names, the      *)
(* repr of a key, the decimal form of a number, ".cont-", "Return") is     *)
(* spelled one character per token, so that partition / startswith /       *)
(* endswith / sort / lower are computed on characters.  The texts that     *)
(* are only displayed ("<empty>", "...", " [", "pub", a type name, the     *)
(* repr of an object) are one token each.                                  *)
(* Python's None is the value None below, which is no text.                *)
(*                                                                         *)
(* Values.  The debuggee's objects live in a heap: a function from object  *)
(* ids to descriptors.  A descriptor records what the walk can observe of  *)
(* an object: the outcome of every probe the code performs on it           *)
(* (isinstance tests, repr/str, keys(), len(), value[k], dir(),            *)
(* getattr, inspect.isroutine), each either a result or the class of       *)
(* exception the source's handlers distinguish.  The texts repr and str    *)
(* give for a value that is no number or string are abbreviated.           *)
(* A function and a WatchEvalError have the interpreter's own objects as   *)
(* members (classes, method-wrappers, built-in methods, a code object):    *)
(* the members are described in full, the members of a member only by      *)
(* what a collapsed node shows of them.                                    *)
(***************************************************************************)
EXTENDS Integers, Sequences, FiniteSets, TLC

VARIABLES
    config,   \* pudb.debugger.CONFIG: the session defaults read by InspectInfo()
    frame,    \* which debuggee frame (locals, watches) is being shown
    size,     \* the number of elements of the debuggee's long containers
    gen,      \* the debuggee's progress: leaf contents change with it, shapes do not
    store,    \* FrameVarInfo.id_path_to_iinfo: identity path -> InspectInfo
    view,     \* the outcome of the last make_var_view call
    pc,       \* "shown": view was computed from the current store; "dirty": not
              \* yet; "waiting": make_var_view is blocked in raw_input("Hit enter:")
    stringifier_file,          \* what the file a custom display type names holds
    custom_stringifier_dict,   \* the module global: the names the file defined
    prompts,  \* the raw_input prompts the running make_var_view has yet to pass
    widget,   \* the VariableWidget the rendering surface draws
    maxcol,   \* size[0]: the number of columns the surface gives the widget
    drawn     \* the last call on the widget (rows or render) and what it gave

vars == <<config, frame, size, gen, store, view, pc, stringifier_file,
          custom_stringifier_dict, prompts, widget, maxcol, drawn>>

-----------------------------------------------------------------------------
(* Text *)

None == <<"\\None">>

Upper == <<"A","B","C","D","E","F","G","H","I","J","K","L","M",
           "N","O","P","Q","R","S","T","U","V","W","X","Y","Z">>
LowerCase == <<"a","b","c","d","e","f","g","h","i","j","k","l","m",
           "n","o","p","q","r","s","t","u","v","w","x","y","z">>

\* The code points of the characters of an identifier.
CodePoints ==
    [c \in {Upper[i] : i \in 1..26} |-> 64 + (CHOOSE i \in 1..26 : Upper[i] = c)]
        @@ [c \in {"_"} |-> 95]
        @@ [c \in {LowerCase[i] : i \in 1..26} |->
                96 + (CHOOSE i \in 1..26 : LowerCase[i] = c)]

\* The code point of a character of an identifier.
Ord(c) == IF c \in DOMAIN CodePoints THEN CodePoints[c] ELSE 0

\* str.lower, one character.
LowerChar(c) ==
    IF \E i \in 1..26 : Upper[i] = c
        THEN LowerCase[CHOOSE i \in 1..26 : Upper[i] = c]
        ELSE c

\* str.lower
Lower(s) == [i \in 1..Len(s) |-> LowerChar(s[i])]

\* s < t for Python strings: lexicographic by code point.  Position k is the
\* first one where the strings differ; without one, s < t when s is a proper
\* prefix of t.
StrLess(s, t) ==
    LET m == IF Len(s) < Len(t) THEN Len(s) ELSE Len(t)
    IN  IF \A k \in 1..m : s[k] = t[k] THEN Len(s) < Len(t)
        ELSE LET k == CHOOSE i \in 1..m :
                        s[i] # t[i] /\ \A j \in 1..(i - 1) : s[j] = t[j]
             IN  Ord(s[k]) < Ord(t[k])

\* str.startswith / str.endswith
StartsWith(s, p) == Len(s) >= Len(p) /\ SubSeq(s, 1, Len(p)) = p
EndsWith(s, p) == Len(s) >= Len(p) /\ SubSeq(s, Len(s) - Len(p) + 1, Len(s)) = p

\* The sort key of list.sort: the name itself, or key=str.lower.
SortKey(s, lower) == IF lower THEN Lower(s) ELSE s

\* names[j] stands before names[i] in the sorted list: its key is smaller, or
\* the keys are equal and it stood before (list.sort is stable).
SortsBefore(names, lower, j, i) ==
    \/ StrLess(SortKey(names[j], lower), SortKey(names[i], lower))
    \/ /\ ~StrLess(SortKey(names[i], lower), SortKey(names[j], lower))
       /\ j < i

\* The position of names[i] in the sorted list.
SortedPosition(names, lower, i) ==
    1 + Cardinality({ j \in 1..Len(names) : SortsBefore(names, lower, j, i) })

\* list.sort() / list.sort(key=str.lower) on a list of names; position[i] is
\* where names[i] goes (the positions are worked out once, as a sequence).
SortNames(names, lower) ==
    LET position == [i \in 1..Len(names) |-> SortedPosition(names, lower, i)]
    IN  IF Len(position) = 0 THEN <<>>
        ELSE [ r \in 1..Len(names) |->
                names[CHOOSE i \in 1..Len(names) : position[i] = r] ]

\* "%d" % n
RECURSIVE Dec(_)
Dec(n) == IF n < 10 THEN <<ToString(n)>>
          ELSE Dec(n \div 10) \o <<ToString(n % 10)>>

-----------------------------------------------------------------------------
(* The inspection-state store *)

DisplayTypes == {"type", "repr", "str", "custom"}
AccessLevels == {"public", "private", "all"}

\* InspectInfo()
InspectInfo(cfg) ==
    [ show_detail     |-> FALSE,
      display_type    |-> cfg.stringifier,
      highlighted     |-> FALSE,
      repeated_at_top |-> FALSE,
      access_level    |-> cfg.default_variables_access_level,
      show_methods    |-> FALSE,
      wrap            |-> cfg.wrap_variables ]

\* FrameVarInfo.get_inspect_info: the record returned, and the store left
\* behind (dict.get leaves it alone, dict.setdefault inserts the default).
GetInspectInfoMutAlwaysInsert(cfg, st, id_path, read_only) ==
    [ iinfo |-> IF id_path \in DOMAIN st THEN st[id_path] ELSE InspectInfo(cfg),
      store |-> IF id_path \in DOMAIN st THEN st
                ELSE st @@ (id_path :> InspectInfo(cfg)) ]

GetInspectInfo(cfg, st, id_path, read_only) ==
    IF read_only
        THEN [ iinfo |-> IF id_path \in DOMAIN st THEN st[id_path]
                         ELSE InspectInfo(cfg),
               store |-> st ]
        ELSE [ iinfo |-> IF id_path \in DOMAIN st THEN st[id_path]
                         ELSE InspectInfo(cfg),
               store |-> IF id_path \in DOMAIN st THEN st
                         ELSE st @@ (id_path :> InspectInfo(cfg)) ]

\* The read-only lookup every traversal site performs.
ReadInfo(cfg, st, id_path) == GetInspectInfo(cfg, st, id_path, TRUE).iinfo

-----------------------------------------------------------------------------
(* The debuggee's values *)

\* The largest number of elements of the long list, set and mapping.
BigN == 21

\* What the walk can observe of one object.
\*   prim        isinstance of int/float/complex/str, or None
\*   tname       type(value).__name__
\*   tkind       the branch type_stringifier takes: "safe" (STR_SAFE_TYPES),
\*               "hook" (has safely_stringify_for_pudb), "builtin" (type is
\*               set/frozenset/list/tuple/dict), "other"
\*   reprres/strres/customres/hookres   "ok" or "raise" (hook: also "nonstr")
\*   isset, elems                       isinstance (set, frozenset); iteration order
\*   keysres     value.keys(): "ok", "attrerr" (AttributeError), "exc" (another)
\*   lenres      len(value): "ok", "typeerr" (AttributeError/TypeError), "exc"
\*   items       per key, in keys() / index order: repr(key), the outcome of
\*               value[key] ("ok", "lookup" = LookupError/TypeError, "exc" =
\*               any other exception) and the value found
\*   dirres, attrs   dir(value): "ok"/"exc"; per name the outcome of getattr
\*               ("ok"/"exc"), the value, and inspect.isroutine of it
Plain ==
    [ prim |-> FALSE, tname |-> <<"object">>, tkind |-> "other",
      reprres |-> "ok", reprtext |-> <<"<object>">>,
      strres |-> "ok", strtext |-> <<"<object>">>,
      customres |-> "ok", customtext |-> <<"custom">>,
      hookres |-> "ok", hooktext |-> <<>>,
      isset |-> FALSE, elems |-> <<>>,
      keysres |-> "attrerr", lenres |-> "typeerr", items |-> <<>>,
      dirres |-> "ok", attrs |-> <<>> ]

Item(k, r, v) == [key |-> k, res |-> r, val |-> v]
Attr(n, r, v, rt) == [name |-> n, res |-> r, val |-> v, routine |-> rt]

PrimValue(text) ==
    [Plain EXCEPT !.prim = TRUE, !.reprtext = text, !.strtext = text]

ListValue(its) ==
    [Plain EXCEPT !.tname = <<"list">>, !.tkind = "builtin",
                  !.reprtext = <<"[..]">>, !.strtext = <<"[..]">>,
                  !.lenres = "ok", !.items = its]

TupleValue(its) ==
    [ListValue(its) EXCEPT !.tname = <<"tuple">>,
                           !.reprtext = <<"(..)">>, !.strtext = <<"(..)">>]

DictValue(its) ==
    [Plain EXCEPT !.tname = <<"dict">>, !.tkind = "builtin",
                  !.reprtext = <<"{..}">>, !.strtext = <<"{..}">>,
                  !.keysres = "ok", !.lenres = "ok", !.items = its]

SetValue(es) ==
    [Plain EXCEPT !.tname = <<"set">>, !.tkind = "builtin",
                  !.reprtext = <<"{..}">>, !.strtext = <<"{..}">>,
                  !.isset = TRUE, !.elems = es, !.lenres = "ok"]

ObjectValue(tn, as) ==
    [Plain EXCEPT !.tname = tn, !.attrs = as]

\* Attribute names, one character per token.
n_doc == <<"_","_","d","o","c","_","_">>
n_und == <<"_","_">>
n_priv == <<"_","p">>
n_a == <<"a">>
n_B == <<"B">>
n_m == <<"m">>
n_z == <<"z">>

\* repr(s) of a str s without quotes or escapes in it
StrRepr(s) == <<"'">> \o s \o <<"'">>

\* "__%s__" % s
Dunder(s) == <<"_", "_">> \o s \o <<"_", "_">>

\* The text a name spells, and its repr.
RECURSIVE Word(_)
Word(name) == IF name = <<>> THEN "" ELSE name[1] \o Word(Tail(name))
Quoted(text) == "'" \o text \o "'"

\* The interpreter's own values (CPython 3.11).  A function and a
\* WatchEvalError have the members dir() gives for any object of the
\* interpreter, and each member is an object with members in turn.  The
\* function, the WatchEvalError and their members are described in full.  A
\* value met only as the member of a member is a face: its descriptor records
\* what a collapsed node shows of it (type, texts) and nothing of what lies
\* below it, so that a walk that expands it has no value in the model.
\* In the text of repr and str the address of an object is left out; the
\* text of a face names its kind only.
Face(tn, kind, text) ==
    [ prim |-> FALSE, tname |-> <<tn>>, tkind |-> kind,
      reprres |-> "ok", reprtext |-> <<text>>,
      strres |-> "ok", strtext |-> <<text>>,
      customres |-> "ok", customtext |-> <<"custom">>,
      hookres |-> "ok", hooktext |-> <<>> ]

Described(tn, kind, text, as) ==
    [ObjectValue(<<tn>>, as) EXCEPT !.tkind = kind, !.reprtext = <<text>>,
                                    !.strtext = <<text>>]

FaceIds ==
    { "a class", "a function", "a method-wrapper", "a built-in method",
      "a built-in function", "a wrapper_descriptor", "a method_descriptor",
      "a getset_descriptor", "a member_descriptor", "a mappingproxy", "bytes",
      "a ModuleSpec", "Ellipsis", "NotImplemented", "a Quitter", "a _Printer",
      "a _Helper" }

\* STR_SAFE_TYPES holds the types of a function, a built-in function or
\* method, a getset_descriptor and a member_descriptor.
Faces ==
    [ id \in FaceIds |->
        CASE id = "a class" -> Face("type", "other", "<class>")
          [] id = "a function" -> Face("function", "safe", "<function>")
          [] id = "a method-wrapper" ->
                Face("method-wrapper", "other", "<method-wrapper>")
          [] id = "a built-in method" ->
                Face("builtin_function_or_method", "safe", "<built-in method>")
          [] id = "a built-in function" ->
                Face("builtin_function_or_method", "safe", "<built-in function>")
          [] id = "a wrapper_descriptor" ->
                Face("wrapper_descriptor", "other", "<slot wrapper>")
          [] id = "a method_descriptor" ->
                Face("method_descriptor", "other", "<method>")
          [] id = "a getset_descriptor" ->
                Face("getset_descriptor", "safe", "<attribute>")
          [] id = "a member_descriptor" ->
                Face("member_descriptor", "safe", "<member>")
          [] id = "a mappingproxy" ->
                Face("mappingproxy", "other", "mappingproxy(..)")
          [] id = "bytes" -> Face("bytes", "other", "b'..'")
          [] id = "a ModuleSpec" -> Face("ModuleSpec", "other", "ModuleSpec(..)")
          [] id = "Ellipsis" -> Face("ellipsis", "other", "Ellipsis")
          [] id = "NotImplemented" ->
                Face("NotImplementedType", "other", "NotImplemented")
          [] id = "a Quitter" -> Face("Quitter", "other", "<Quitter>")
          [] id = "a _Printer" -> Face("_Printer", "other", "<_Printer>")
          [] id = "a _Helper" -> Face("_Helper", "other", "<_Helper>") ]

\* The names dir() gives for every object whose values are routines: the
\* slots of object, which getattr resolves to a method-wrapper on an instance
\* and to a wrapper_descriptor on a class; the methods of object, resolved to
\* a built-in method on an instance and to a method_descriptor on a class; and
\* the static and class methods of object, a built-in method on both.
\* __str__ is a slot of object, listed apart: a class may define it.
WrapperNames ==
    << <<"d","e","l","a","t","t","r">>, <<"e","q">>, <<"g","e">>,
       <<"g","e","t","a","t","t","r","i","b","u","t","e">>, <<"g","t">>,
       <<"h","a","s","h">>, <<"i","n","i","t">>, <<"l","e">>, <<"l","t">>,
       <<"n","e">>, <<"r","e","p","r">>, <<"s","e","t","a","t","t","r">> >>
MethodNames ==
    << <<"d","i","r">>, <<"f","o","r","m","a","t">>,
       <<"g","e","t","s","t","a","t","e">>, <<"r","e","d","u","c","e">>,
       <<"r","e","d","u","c","e","_","e","x">>, <<"s","i","z","e","o","f">> >>
ClassMethodNames ==
    << <<"i","n","i","t","_","s","u","b","c","l","a","s","s">>, <<"n","e","w">>,
       <<"s","u","b","c","l","a","s","s","h","o","o","k">> >>
BuiltinMethodNames == MethodNames \o ClassMethodNames
n_call == <<"c","a","l","l">>
n_class == <<"c","l","a","s","s">>
n_get == <<"g","e","t">>
n_new == <<"n","e","w">>
n_repr == <<"r","e","p","r">>
n_str == <<"s","t","r">>

\* A data member __n__ holding v, and the routine members named by names.
Data(n, v) == Attr(Dunder(n), "ok", v, FALSE)
Routines(names, v) == [i \in 1..Len(names) |-> Attr(Dunder(names[i]), "ok", v, TRUE)]

\* The object getattr(owner, name) gives for a routine of the function or of
\* the WatchEvalError, a new object at every getattr.
MemberId(owner, name) == owner \o "." \o Word(name)
MemberRoutines(owner, names) ==
    [i \in 1..Len(names) |->
        Attr(Dunder(names[i]), "ok", MemberId(owner, Dunder(names[i])), TRUE)]

\* inspect.isroutine of the function, of a WatchEvalError and of a class.
IsRoutine(id) == id = "fn"

\* type(owner).__name__, and the slots that type defines itself; it inherits
\* the others from object.
ClassOf(owner) == IF owner = "err" THEN "WatchEvalError" ELSE "function"
OwnSlots(owner) == IF owner = "fn" THEN {n_call, n_get, n_repr} ELSE {}
SlotNamesOf(owner) ==
    IF owner = "fn" THEN WrapperNames \o <<n_call, n_get, n_str>> ELSE WrapperNames

\* __doc__ and __text_signature__ of the slots and of the built-in methods.
Slots ==
    << [ name |-> <<"c","a","l","l">>,
         doc |-> "'Call self as a function.'",
         sig |-> "'($self, /, *args, **kwargs)'" ],
       [ name |-> <<"d","e","l","a","t","t","r">>,
         doc |-> "'Implement delattr(self, name).'",
         sig |-> "'($self, name, /)'" ],
       [ name |-> <<"e","q">>,
         doc |-> "'Return self==value.'",
         sig |-> "'($self, value, /)'" ],
       [ name |-> <<"g","e">>,
         doc |-> "'Return self>=value.'",
         sig |-> "'($self, value, /)'" ],
       [ name |-> <<"g","e","t">>,
         doc |-> "'Return an attribute of instance, which is of type owner.'",
         sig |-> "'($self, instance, owner=None, /)'" ],
       [ name |-> <<"g","e","t","a","t","t","r","i","b","u","t","e">>,
         doc |-> "'Return getattr(self, name).'",
         sig |-> "'($self, name, /)'" ],
       [ name |-> <<"g","t">>,
         doc |-> "'Return self>value.'",
         sig |-> "'($self, value, /)'" ],
       [ name |-> <<"h","a","s","h">>,
         doc |-> "'Return hash(self).'",
         sig |-> "'($self, /)'" ],
       [ name |-> <<"i","n","i","t">>,
         doc |-> "'Initialize self.  See help(type(self)) for accurate signature.'",
         sig |-> "'($self, /, *args, **kwargs)'" ],
       [ name |-> <<"l","e">>,
         doc |-> "'Return self<=value.'",
         sig |-> "'($self, value, /)'" ],
       [ name |-> <<"l","t">>,
         doc |-> "'Return self<value.'",
         sig |-> "'($self, value, /)'" ],
       [ name |-> <<"n","e">>,
         doc |-> "'Return self!=value.'",
         sig |-> "'($self, value, /)'" ],
       [ name |-> <<"r","e","p","r">>,
         doc |-> "'Return repr(self).'",
         sig |-> "'($self, /)'" ],
       [ name |-> <<"s","e","t","a","t","t","r">>,
         doc |-> "'Implement setattr(self, name, value).'",
         sig |-> "'($self, name, value, /)'" ],
       [ name |-> <<"s","t","r">>,
         doc |-> "'Return str(self).'",
         sig |-> "'($self, /)'" ] >>

Methods ==
    << [ name |-> <<"d","i","r">>,
         doc |-> "'Default dir() implementation.'",
         sig |-> "'($self, /)'" ],
       [ name |-> <<"f","o","r","m","a","t">>,
         doc |-> "'Default object formatter.'",
         sig |-> "'($self, format_spec, /)'" ],
       [ name |-> <<"g","e","t","s","t","a","t","e">>,
         doc |-> "'Helper for pickle.'",
         sig |-> "'($self, /)'" ],
       [ name |-> <<"i","n","i","t","_","s","u","b","c","l","a","s","s">>,
         doc |-> "'This method is called when a class is subclassed.\\n\\nThe default implementation does nothing. It may be\\noverridden to extend subclasses.\\n'",
         sig |-> "none" ],
       [ name |-> <<"n","e","w">>,
         doc |-> "'Create and return a new object.  See help(type) for accurate signature.'",
         sig |-> "'($type, *args, **kwargs)'" ],
       [ name |-> <<"r","e","d","u","c","e">>,
         doc |-> "'Helper for pickle.'",
         sig |-> "'($self, /)'" ],
       [ name |-> <<"r","e","d","u","c","e","_","e","x">>,
         doc |-> "'Helper for pickle.'",
         sig |-> "'($self, protocol, /)'" ],
       [ name |-> <<"s","i","z","e","o","f">>,
         doc |-> "'Size of object in memory, in bytes.'",
         sig |-> "'($self, /)'" ],
       [ name |-> <<"s","u","b","c","l","a","s","s","h","o","o","k">>,
         doc |-> "'Abstract classes can override this to customize issubclass().\\n\\nThis is invoked early on by abc.ABCMeta.__subclasscheck__().\\nIt should return True, False or NotImplemented.  If it returns\\nNotImplemented, the normal algorithm is used.  Otherwise, it\\noverrides the normal algorithm (and the outcome is cached).\\n'",
         sig |-> "none" ] >>

Named(rows, name) == rows[CHOOSE i \in 1..Len(rows) : rows[i].name = name]

\* The routine members of a method-wrapper, a built-in method, a bound method
\* and a code object: the slots of object and those named by more, and the
\* methods of object.
InstanceRoutines(more) ==
    Routines(WrapperNames \o more, "a method-wrapper")
        \o Routines(BuiltinMethodNames, "a built-in method")

\* The routine members of a class whose slots are those of object and more.
ClassRoutines(more) ==
    Routines(WrapperNames \o more, "a wrapper_descriptor")
        \o Routines(MethodNames, "a method_descriptor")
        \o Routines(ClassMethodNames, "a built-in method")

\* getattr(owner, "__name__") for a slot: a method-wrapper.
MethodWrapper(owner, name) ==
    LET text == Word(Dunder(name))
        definer == IF name \in OwnSlots(owner) THEN ClassOf(owner) ELSE "object"
    IN  Described("method-wrapper", "other",
            "<method-wrapper '" \o text \o "' of " \o ClassOf(owner) \o " object>",
            << Data(n_class, "a class"),
               Data(<<"d","o","c">>, Named(Slots, name).doc),
               Data(<<"n","a","m","e">>, Quoted(text)),
               Data(<<"o","b","j","c","l","a","s","s">>,
                    IF definer = "object" THEN "a class"
                    ELSE MemberId(owner, Dunder(n_class))),
               Data(<<"q","u","a","l","n","a","m","e">>,
                    Quoted(definer \o "." \o text)),
               Attr(Dunder(<<"s","e","l","f">>), "ok", owner, IsRoutine(owner)),
               Data(<<"t","e","x","t","_","s","i","g","n","a","t","u","r","e">>,
                    Named(Slots, name).sig) >>
                \o InstanceRoutines(<<n_call, n_str>>))

\* getattr(owner, "__name__") for a method of object: a built-in method
\* bound to owner; to type(owner) for __init_subclass__ and __subclasshook__;
\* for __new__, to the type that defines it (function does, WatchEvalError
\* has that of object).
MethodSelf(owner, name) ==
    IF \A i \in 1..Len(ClassMethodNames) : ClassMethodNames[i] # name THEN owner
    ELSE IF name = n_new /\ owner = "err" THEN "a class"
    ELSE MemberId(owner, Dunder(n_class))

BuiltinMethod(owner, name) ==
    LET text == Word(Dunder(name))
        self == MethodSelf(owner, name)
        definer == IF self = "a class" THEN "object" ELSE ClassOf(owner)
    IN  Described("builtin_function_or_method", "safe",
            "<built-in method " \o text \o " of "
                \o (IF self = owner THEN ClassOf(owner) ELSE "type") \o " object>",
            << Data(n_class, "a class"),
               Data(<<"d","o","c">>, Named(Methods, name).doc),
               Data(<<"m","o","d","u","l","e">>, "none"),
               Data(<<"n","a","m","e">>, Quoted(text)),
               Data(<<"q","u","a","l","n","a","m","e">>,
                    Quoted(definer \o "." \o text)),
               Attr(Dunder(<<"s","e","l","f">>), "ok", self, IsRoutine(self)),
               Data(<<"t","e","x","t","_","s","i","g","n","a","t","u","r","e">>,
                    Named(Methods, name).sig) >>
                \o InstanceRoutines(<<n_call, n_str>>))

\* The method-wrappers and the built-in methods of the function and of the
\* WatchEvalError, each with its id.
RoutinesOf(owner) ==
    [i \in 1..Len(SlotNamesOf(owner)) |->
        [ id |-> MemberId(owner, Dunder(SlotNamesOf(owner)[i])),
          value |-> MethodWrapper(owner, SlotNamesOf(owner)[i]) ]]
    \o [i \in 1..Len(BuiltinMethodNames) |->
        [ id |-> MemberId(owner, Dunder(BuiltinMethodNames[i])),
          value |-> BuiltinMethod(owner, BuiltinMethodNames[i]) ]]
RoutineValues == RoutinesOf("err") \o RoutinesOf("fn")
RoutineIds == { RoutineValues[k].id : k \in 1..Len(RoutineValues) }

\* dir() of a WatchEvalError instance: what object gives, the members of an
\* instance of a class written in Python, and the __str__ of the class.
WatchEvalErrorAttrs ==
    << Data(n_class, "err.__class__"),
       Data(<<"d","i","c","t">>, "dct0"),
       Data(<<"d","o","c">>, "none"),
       Data(<<"m","o","d","u","l","e">>, "modname"),
       Data(<<"w","e","a","k","r","e","f">>, "none") >>
        \o MemberRoutines("err", WrapperNames \o BuiltinMethodNames \o <<n_str>>)

\* dir() of the class WatchEvalError.
WatchEvalErrorClassAttrs ==
    << Data(n_class, "a class"),
       Data(<<"d","i","c","t">>, "a mappingproxy"),
       Data(<<"d","o","c">>, "none"),
       Data(<<"m","o","d","u","l","e">>, "modname"),
       Data(<<"w","e","a","k","r","e","f">>, "a getset_descriptor"),
       Attr(Dunder(n_str), "ok", "a function", TRUE) >>
        \o ClassRoutines(<<>>)

\* dir() of the bound method getattr gives for __str__ of a WatchEvalError.
BoundMethodAttrs ==
    << Data(n_class, "a class"),
       Data(<<"d","o","c">>, "none"),
       Attr(Dunder(<<"f","u","n","c">>), "ok", "a function", TRUE),
       Data(<<"s","e","l","f">>, "err") >>
        \o InstanceRoutines(<<n_call, n_str>>)

\* The debuggee's function: def f(): pass, compiled from a string and
\* executed in the globals {'__name__': '__main__'}.
\* dir() of f, which has no annotations, defaults, closure or docstring.
FunctionAttrs ==
    << Data(<<"a","n","n","o","t","a","t","i","o","n","s">>, "dct0"),
       Data(<<"b","u","i","l","t","i","n","s">>, "builtins"),
       Data(n_class, "fn.__class__"),
       Data(<<"c","l","o","s","u","r","e">>, "none"),
       Data(<<"c","o","d","e">>, "fn.__code__"),
       Data(<<"d","e","f","a","u","l","t","s">>, "none"),
       Data(<<"d","i","c","t">>, "dct0"),
       Data(<<"d","o","c">>, "none"),
       Data(<<"g","l","o","b","a","l","s">>, "globals"),
       Data(<<"k","w","d","e","f","a","u","l","t","s">>, "none"),
       Data(<<"m","o","d","u","l","e">>, "fnmod"),
       Data(<<"n","a","m","e">>, "fnname"),
       Data(<<"q","u","a","l","n","a","m","e">>, "fnname") >>
        \o MemberRoutines("fn", SlotNamesOf("fn") \o BuiltinMethodNames)

\* dir() of the class function; getattr of __annotations__ raises
\* AttributeError on it.
FunctionClassDoc ==
    "'Create a function object.\\n\\n  code\\n    a code object\\n  globals\\n    the globals dictionary\\n  name\\n    a string that overrides the name from the code object\\n  argdefs\\n    a tuple that specifies the default argument values\\n  closure\\n    a tuple that supplies the bindings for free variables'"
FunctionClassAttrs ==
    << Attr(Dunder(<<"a","n","n","o","t","a","t","i","o","n","s">>), "exc", "none", FALSE),
       Data(<<"b","u","i","l","t","i","n","s">>, "a member_descriptor"),
       Data(n_class, "a class"),
       Data(<<"c","l","o","s","u","r","e">>, "a member_descriptor"),
       Data(<<"c","o","d","e">>, "a getset_descriptor"),
       Data(<<"d","e","f","a","u","l","t","s">>, "a getset_descriptor"),
       Data(<<"d","i","c","t">>, "a mappingproxy"),
       Data(<<"d","o","c">>, FunctionClassDoc),
       Data(<<"g","l","o","b","a","l","s">>, "a member_descriptor"),
       Data(<<"k","w","d","e","f","a","u","l","t","s">>, "a getset_descriptor"),
       Data(<<"m","o","d","u","l","e">>, "'builtins'"),
       Data(<<"n","a","m","e">>, "'function'"),
       Data(<<"q","u","a","l","n","a","m","e">>, "'function'") >>
        \o ClassRoutines(<<n_call, n_get, n_str>>)

\* dir() of the code object of f.
CodeAttrs ==
    << Data(n_class, "a class"),
       Data(<<"d","o","c">>, "'Create a code object.  Not for the faint of heart.'"),
       Attr(<<"_","c","o","_","c","o","d","e","_","a","d","a","p","t","i","v","e">>, "ok", "bytes", FALSE),
       Attr(<<"c","o","_","a","r","g","c","o","u","n","t">>, "ok", "0", FALSE),
       Attr(<<"c","o","_","c","e","l","l","v","a","r","s">>, "ok", "tup0", FALSE),
       Attr(<<"c","o","_","c","o","d","e">>, "ok", "bytes", FALSE),
       Attr(<<"c","o","_","c","o","n","s","t","s">>, "ok", "consts", FALSE),
       Attr(<<"c","o","_","e","x","c","e","p","t","i","o","n","t","a","b","l","e">>, "ok", "bytes", FALSE),
       Attr(<<"c","o","_","f","i","l","e","n","a","m","e">>, "ok", "'<string>'", FALSE),
       Attr(<<"c","o","_","f","i","r","s","t","l","i","n","e","n","o">>, "ok", "1", FALSE),
       Attr(<<"c","o","_","f","l","a","g","s">>, "ok", "3", FALSE),
       Attr(<<"c","o","_","f","r","e","e","v","a","r","s">>, "ok", "tup0", FALSE),
       Attr(<<"c","o","_","k","w","o","n","l","y","a","r","g","c","o","u","n","t">>, "ok", "0", FALSE),
       Attr(<<"c","o","_","l","i","n","e","t","a","b","l","e">>, "ok", "bytes", FALSE),
       Attr(<<"c","o","_","l","n","o","t","a","b">>, "ok", "bytes", FALSE),
       Attr(<<"c","o","_","n","a","m","e">>, "ok", "fnname", FALSE),
       Attr(<<"c","o","_","n","a","m","e","s">>, "ok", "tup0", FALSE),
       Attr(<<"c","o","_","n","l","o","c","a","l","s">>, "ok", "0", FALSE),
       Attr(<<"c","o","_","p","o","s","o","n","l","y","a","r","g","c","o","u","n","t">>, "ok", "0", FALSE),
       Attr(<<"c","o","_","q","u","a","l","n","a","m","e">>, "ok", "fnname", FALSE),
       Attr(<<"c","o","_","s","t","a","c","k","s","i","z","e">>, "ok", "1", FALSE),
       Attr(<<"c","o","_","v","a","r","n","a","m","e","s">>, "ok", "tup0", FALSE) >>
        \o Routines(WrapperNames \o <<n_str>>, "a method-wrapper")
        \o Routines(BuiltinMethodNames, "a built-in method")
        \o [i \in 1..4 |->
              Attr(<< <<"_","v","a","r","n","a","m","e","_","f","r","o","m","_","o","p","a","r","g">>,
                      <<"c","o","_","l","i","n","e","s">>,
                      <<"c","o","_","p","o","s","i","t","i","o","n","s">>,
                      <<"r","e","p","l","a","c","e">> >>[i],
                   "ok", "a built-in method", TRUE)]

\* The builtins of the interpreter, f.__builtins__: the key, a str, and the
\* value, in dict order.
BuiltinsItems ==
    << << <<"_","_","n","a","m","e","_","_">>, "'builtins'">>,
       << <<"_","_","d","o","c","_","_">>, "\"Built-in functions, types, exceptions, and other objects.\\n\\nThis module provides direct access to all 'built-in'\\nidentifiers of Python; for example, builtins.len is\\nthe full name for the built-in function len().\\n\\nThis module is not normally accessed explicitly by most\\napplications, but can be useful in modules that provide\\nobjects with the same name as a built-in value, but in\\nwhich the built-in of that name is also needed.\"">>,
       << <<"_","_","p","a","c","k","a","g","e","_","_">>, "''">>, << <<"_","_","l","o","a","d","e","r","_","_">>, "a class">>,
       << <<"_","_","s","p","e","c","_","_">>, "a ModuleSpec">>,
       << <<"_","_","b","u","i","l","d","_","c","l","a","s","s","_","_">>, "a built-in function">>,
       << <<"_","_","i","m","p","o","r","t","_","_">>, "a built-in function">>,
       << <<"a","b","s">>, "a built-in function">>, << <<"a","l","l">>, "a built-in function">>,
       << <<"a","n","y">>, "a built-in function">>, << <<"a","s","c","i","i">>, "a built-in function">>,
       << <<"b","i","n">>, "a built-in function">>,
       << <<"b","r","e","a","k","p","o","i","n","t">>, "a built-in function">>,
       << <<"c","a","l","l","a","b","l","e">>, "a built-in function">>,
       << <<"c","h","r">>, "a built-in function">>,
       << <<"c","o","m","p","i","l","e">>, "a built-in function">>,
       << <<"d","e","l","a","t","t","r">>, "a built-in function">>,
       << <<"d","i","r">>, "a built-in function">>,
       << <<"d","i","v","m","o","d">>, "a built-in function">>,
       << <<"e","v","a","l">>, "a built-in function">>, << <<"e","x","e","c">>, "a built-in function">>,
       << <<"f","o","r","m","a","t">>, "a built-in function">>,
       << <<"g","e","t","a","t","t","r">>, "a built-in function">>,
       << <<"g","l","o","b","a","l","s">>, "a built-in function">>,
       << <<"h","a","s","a","t","t","r">>, "a built-in function">>,
       << <<"h","a","s","h">>, "a built-in function">>, << <<"h","e","x">>, "a built-in function">>,
       << <<"i","d">>, "a built-in function">>, << <<"i","n","p","u","t">>, "a built-in function">>,
       << <<"i","s","i","n","s","t","a","n","c","e">>, "a built-in function">>,
       << <<"i","s","s","u","b","c","l","a","s","s">>, "a built-in function">>,
       << <<"i","t","e","r">>, "a built-in function">>,
       << <<"a","i","t","e","r">>, "a built-in function">>, << <<"l","e","n">>, "a built-in function">>,
       << <<"l","o","c","a","l","s">>, "a built-in function">>,
       << <<"m","a","x">>, "a built-in function">>, << <<"m","i","n">>, "a built-in function">>,
       << <<"n","e","x","t">>, "a built-in function">>,
       << <<"a","n","e","x","t">>, "a built-in function">>, << <<"o","c","t">>, "a built-in function">>,
       << <<"o","r","d">>, "a built-in function">>, << <<"p","o","w">>, "a built-in function">>,
       << <<"p","r","i","n","t">>, "a built-in function">>,
       << <<"r","e","p","r">>, "a built-in function">>,
       << <<"r","o","u","n","d">>, "a built-in function">>,
       << <<"s","e","t","a","t","t","r">>, "a built-in function">>,
       << <<"s","o","r","t","e","d">>, "a built-in function">>,
       << <<"s","u","m">>, "a built-in function">>, << <<"v","a","r","s">>, "a built-in function">>,
       << <<"N","o","n","e">>, "none">>, << <<"E","l","l","i","p","s","i","s">>, "Ellipsis">>,
       << <<"N","o","t","I","m","p","l","e","m","e","n","t","e","d">>, "NotImplemented">>, << <<"F","a","l","s","e">>, "False">>,
       << <<"T","r","u","e">>, "True">>, << <<"b","o","o","l">>, "a class">>,
       << <<"m","e","m","o","r","y","v","i","e","w">>, "a class">>, << <<"b","y","t","e","a","r","r","a","y">>, "a class">>,
       << <<"b","y","t","e","s">>, "a class">>, << <<"c","l","a","s","s","m","e","t","h","o","d">>, "a class">>,
       << <<"c","o","m","p","l","e","x">>, "a class">>, << <<"d","i","c","t">>, "a class">>,
       << <<"e","n","u","m","e","r","a","t","e">>, "a class">>, << <<"f","i","l","t","e","r">>, "a class">>,
       << <<"f","l","o","a","t">>, "a class">>, << <<"f","r","o","z","e","n","s","e","t">>, "a class">>,
       << <<"p","r","o","p","e","r","t","y">>, "a class">>, << <<"i","n","t">>, "a class">>,
       << <<"l","i","s","t">>, "a class">>, << <<"m","a","p">>, "a class">>,
       << <<"o","b","j","e","c","t">>, "a class">>, << <<"r","a","n","g","e">>, "a class">>,
       << <<"r","e","v","e","r","s","e","d">>, "a class">>, << <<"s","e","t">>, "a class">>,
       << <<"s","l","i","c","e">>, "a class">>, << <<"s","t","a","t","i","c","m","e","t","h","o","d">>, "a class">>,
       << <<"s","t","r">>, "a class">>, << <<"s","u","p","e","r">>, "a class">>,
       << <<"t","u","p","l","e">>, "a class">>, << <<"t","y","p","e">>, "a class">>,
       << <<"z","i","p">>, "a class">>, << <<"_","_","d","e","b","u","g","_","_">>, "True">>,
       << <<"B","a","s","e","E","x","c","e","p","t","i","o","n">>, "a class">>, << <<"B","a","s","e","E","x","c","e","p","t","i","o","n","G","r","o","u","p">>, "a class">>,
       << <<"E","x","c","e","p","t","i","o","n">>, "a class">>, << <<"G","e","n","e","r","a","t","o","r","E","x","i","t">>, "a class">>,
       << <<"K","e","y","b","o","a","r","d","I","n","t","e","r","r","u","p","t">>, "a class">>, << <<"S","y","s","t","e","m","E","x","i","t">>, "a class">>,
       << <<"A","r","i","t","h","m","e","t","i","c","E","r","r","o","r">>, "a class">>, << <<"A","s","s","e","r","t","i","o","n","E","r","r","o","r">>, "a class">>,
       << <<"A","t","t","r","i","b","u","t","e","E","r","r","o","r">>, "a class">>, << <<"B","u","f","f","e","r","E","r","r","o","r">>, "a class">>,
       << <<"E","O","F","E","r","r","o","r">>, "a class">>, << <<"I","m","p","o","r","t","E","r","r","o","r">>, "a class">>,
       << <<"L","o","o","k","u","p","E","r","r","o","r">>, "a class">>, << <<"M","e","m","o","r","y","E","r","r","o","r">>, "a class">>,
       << <<"N","a","m","e","E","r","r","o","r">>, "a class">>, << <<"O","S","E","r","r","o","r">>, "a class">>,
       << <<"R","e","f","e","r","e","n","c","e","E","r","r","o","r">>, "a class">>, << <<"R","u","n","t","i","m","e","E","r","r","o","r">>, "a class">>,
       << <<"S","t","o","p","A","s","y","n","c","I","t","e","r","a","t","i","o","n">>, "a class">>, << <<"S","t","o","p","I","t","e","r","a","t","i","o","n">>, "a class">>,
       << <<"S","y","n","t","a","x","E","r","r","o","r">>, "a class">>, << <<"S","y","s","t","e","m","E","r","r","o","r">>, "a class">>,
       << <<"T","y","p","e","E","r","r","o","r">>, "a class">>, << <<"V","a","l","u","e","E","r","r","o","r">>, "a class">>,
       << <<"W","a","r","n","i","n","g">>, "a class">>, << <<"F","l","o","a","t","i","n","g","P","o","i","n","t","E","r","r","o","r">>, "a class">>,
       << <<"O","v","e","r","f","l","o","w","E","r","r","o","r">>, "a class">>, << <<"Z","e","r","o","D","i","v","i","s","i","o","n","E","r","r","o","r">>, "a class">>,
       << <<"B","y","t","e","s","W","a","r","n","i","n","g">>, "a class">>, << <<"D","e","p","r","e","c","a","t","i","o","n","W","a","r","n","i","n","g">>, "a class">>,
       << <<"E","n","c","o","d","i","n","g","W","a","r","n","i","n","g">>, "a class">>, << <<"F","u","t","u","r","e","W","a","r","n","i","n","g">>, "a class">>,
       << <<"I","m","p","o","r","t","W","a","r","n","i","n","g">>, "a class">>,
       << <<"P","e","n","d","i","n","g","D","e","p","r","e","c","a","t","i","o","n","W","a","r","n","i","n","g">>, "a class">>,
       << <<"R","e","s","o","u","r","c","e","W","a","r","n","i","n","g">>, "a class">>, << <<"R","u","n","t","i","m","e","W","a","r","n","i","n","g">>, "a class">>,
       << <<"S","y","n","t","a","x","W","a","r","n","i","n","g">>, "a class">>, << <<"U","n","i","c","o","d","e","W","a","r","n","i","n","g">>, "a class">>,
       << <<"U","s","e","r","W","a","r","n","i","n","g">>, "a class">>, << <<"B","l","o","c","k","i","n","g","I","O","E","r","r","o","r">>, "a class">>,
       << <<"C","h","i","l","d","P","r","o","c","e","s","s","E","r","r","o","r">>, "a class">>, << <<"C","o","n","n","e","c","t","i","o","n","E","r","r","o","r">>, "a class">>,
       << <<"F","i","l","e","E","x","i","s","t","s","E","r","r","o","r">>, "a class">>, << <<"F","i","l","e","N","o","t","F","o","u","n","d","E","r","r","o","r">>, "a class">>,
       << <<"I","n","t","e","r","r","u","p","t","e","d","E","r","r","o","r">>, "a class">>,
       << <<"I","s","A","D","i","r","e","c","t","o","r","y","E","r","r","o","r">>, "a class">>,
       << <<"N","o","t","A","D","i","r","e","c","t","o","r","y","E","r","r","o","r">>, "a class">>,
       << <<"P","e","r","m","i","s","s","i","o","n","E","r","r","o","r">>, "a class">>,
       << <<"P","r","o","c","e","s","s","L","o","o","k","u","p","E","r","r","o","r">>, "a class">>, << <<"T","i","m","e","o","u","t","E","r","r","o","r">>, "a class">>,
       << <<"I","n","d","e","n","t","a","t","i","o","n","E","r","r","o","r">>, "a class">>, << <<"I","n","d","e","x","E","r","r","o","r">>, "a class">>,
       << <<"K","e","y","E","r","r","o","r">>, "a class">>, << <<"M","o","d","u","l","e","N","o","t","F","o","u","n","d","E","r","r","o","r">>, "a class">>,
       << <<"N","o","t","I","m","p","l","e","m","e","n","t","e","d","E","r","r","o","r">>, "a class">>,
       << <<"R","e","c","u","r","s","i","o","n","E","r","r","o","r">>, "a class">>, << <<"U","n","b","o","u","n","d","L","o","c","a","l","E","r","r","o","r">>, "a class">>,
       << <<"U","n","i","c","o","d","e","E","r","r","o","r">>, "a class">>, << <<"B","r","o","k","e","n","P","i","p","e","E","r","r","o","r">>, "a class">>,
       << <<"C","o","n","n","e","c","t","i","o","n","A","b","o","r","t","e","d","E","r","r","o","r">>, "a class">>,
       << <<"C","o","n","n","e","c","t","i","o","n","R","e","f","u","s","e","d","E","r","r","o","r">>, "a class">>,
       << <<"C","o","n","n","e","c","t","i","o","n","R","e","s","e","t","E","r","r","o","r">>, "a class">>, << <<"T","a","b","E","r","r","o","r">>, "a class">>,
       << <<"U","n","i","c","o","d","e","D","e","c","o","d","e","E","r","r","o","r">>, "a class">>,
       << <<"U","n","i","c","o","d","e","E","n","c","o","d","e","E","r","r","o","r">>, "a class">>,
       << <<"U","n","i","c","o","d","e","T","r","a","n","s","l","a","t","e","E","r","r","o","r">>, "a class">>,
       << <<"E","x","c","e","p","t","i","o","n","G","r","o","u","p">>, "a class">>, << <<"E","n","v","i","r","o","n","m","e","n","t","E","r","r","o","r">>, "a class">>,
       << <<"I","O","E","r","r","o","r">>, "a class">>, << <<"o","p","e","n">>, "a built-in function">>,
       << <<"q","u","i","t">>, "a Quitter">>, << <<"e","x","i","t">>, "a Quitter">>,
       << <<"c","o","p","y","r","i","g","h","t">>, "a _Printer">>, << <<"c","r","e","d","i","t","s">>, "a _Printer">>,
       << <<"l","i","c","e","n","s","e">>, "a _Printer">>, << <<"h","e","l","p">>, "a _Helper">> >>


\* The texts of the numbers, strings and None among the members above; each
\* is the id of the value it is the repr of.
PrimTexts ==
    { Slots[i].doc : i \in 1..Len(Slots) } \cup { Slots[i].sig : i \in 1..Len(Slots) }
        \cup { Methods[i].doc : i \in 1..Len(Methods) }
        \cup { Methods[i].sig : i \in 1..Len(Methods) }
        \cup { Quoted(Word(Dunder((Slots \o Methods)[i].name))) :
                i \in 1..(Len(Slots) + Len(Methods)) }
        \cup { Quoted(c \o "." \o Word(Dunder((Slots \o Methods)[i].name))) :
                c \in {"object", "function", "WatchEvalError"},
                i \in 1..(Len(Slots) + Len(Methods)) }
        \cup { BuiltinsItems[i][2] : i \in 1..Len(BuiltinsItems) }
        \cup { FunctionClassDoc, "'builtins'", "'function'", "'<string>'",
               "'Create a code object.  Not for the faint of heart.'",
               "0", "1", "3" }

ValueIds ==
    { "int", "txt", "none", "lst0", "lst3", "big", "set", "map", "dct",
      "badmap", "worsemap", "obj", "hid", "nodir", "bare", "sour", "fn",
      "err", "cyc", "sized", "hooked", "loop", "knot",
      "err.__class__", "err.__str__", "fn.__class__", "fn.__code__", "dct0",
      "tup0", "consts", "modname", "fnmod", "fnname", "builtins", "globals" }
        \cup FaceIds \cup RoutineIds
HeapIds == ValueIds \cup PrimTexts

\* The heap at debuggee progress g, its long containers holding n elements.
\* Only the text of the leaves depends on g.
Heap(g, n) ==
    [ id \in HeapIds \cup { ToString(i) : i \in 0..(n - 1) } |->
        CASE id \notin ValueIds -> PrimValue(<<id>>)
          [] id = "int"  -> PrimValue(Dec(40 + g))
          [] id = "txt"  -> PrimValue(<<"'", "v", ToString(g), "'">>)
          [] id = "none" -> PrimValue(<<"None">>)
          [] id = "lst0" -> ListValue(<<>>)
          [] id = "lst3" -> ListValue(<< Item(Dec(0), "ok", "int"),
                                         Item(Dec(1), "ok", "lst0"),
                                         Item(Dec(2), "ok", "txt") >>)
          [] id = "big"  -> ListValue([i \in 1..n |->
                                         Item(Dec(i - 1), "ok", "int")])
          \* the set of the integers 0..n-1, which iterates in ascending order
          [] id = "set"  -> SetValue([i \in 1..n |-> ToString(i - 1)])
          [] id = "map"  -> DictValue([i \in 1..n |->
                                         Item(Dec(100 + i), "ok", "txt")])
          [] id = "dct"  -> DictValue(<< Item(StrRepr(<<"a">>), "ok", "int"),
                                         Item(StrRepr(<<"b">>), "ok", "lst3") >>)
          \* a mapping of n + 2 keys whose key n + 1 cannot be looked up (KeyError)
          [] id = "badmap" ->
                [DictValue([i \in 1..(n + 2) |->
                              Item(Dec(i), IF i = n + 1 THEN "lookup" ELSE "ok", "int")])
                    EXCEPT !.tname = <<"BadMap">>, !.tkind = "other"]
          \* a mapping of n + 2 keys whose key n + 1 raises another exception
          \* (ValueError)
          [] id = "worsemap" ->
                [DictValue([i \in 1..(n + 2) |->
                              Item(Dec(i), IF i = n + 1 THEN "exc" ELSE "ok", "int")])
                    EXCEPT !.tname = <<"WorseMap">>, !.tkind = "other"]
          [] id = "obj"  -> ObjectValue(<<"Obj">>,
                                << Attr(n_z, "exc", "none", FALSE),
                                   Attr(n_a, "ok", "lst3", FALSE),
                                   Attr(n_m, "ok", "fn", TRUE),
                                   Attr(n_priv, "ok", "int", FALSE),
                                   Attr(n_doc, "ok", "none", FALSE),
                                   Attr(n_B, "ok", "txt", FALSE),
                                   Attr(n_und, "ok", "int", FALSE) >>)
          \* an object with nothing public
          [] id = "hid"  -> ObjectValue(<<"Hid">>,
                                << Attr(n_priv, "ok", "int", FALSE),
                                   Attr(n_doc, "ok", "none", FALSE) >>)
          \* an object whose dir() raises
          [] id = "nodir" -> [ObjectValue(<<"NoDir">>, <<>>) EXCEPT !.dirres = "exc"]
          \* an object whose dir() is empty
          [] id = "bare" -> ObjectValue(<<"Bare">>, <<>>)
          \* an object whose __repr__ and __str__ raise, as does the custom stringifier
          [] id = "sour" -> [ObjectValue(<<"Sour">>, << Attr(n_a, "ok", "int", FALSE) >>)
                                EXCEPT !.reprres = "raise", !.strres = "raise",
                                       !.customres = "raise"]
          \* a function
          [] id = "fn"   -> [ObjectValue(<<"function">>, FunctionAttrs)
                                EXCEPT !.tkind = "safe",
                                       !.reprtext = <<"<function f>">>,
                                       !.strtext = <<"<function f>">>]
          \* a WatchEvalError instance
          [] id = "err"  -> [ObjectValue(<<"WatchEvalError">>, WatchEvalErrorAttrs)
                                EXCEPT !.tkind = "safe",
                                       !.reprtext = <<"<WatchEvalError object>">>,
                                       !.strtext = <<"<error>">>]
          \* a list that contains itself
          [] id = "cyc"  -> ListValue(<< Item(Dec(0), "ok", "cyc"),
                                         Item(Dec(1), "ok", "int") >>)
          \* an object with __len__ and no __getitem__
          [] id = "sized" -> [ObjectValue(<<"Sized">>, << Attr(n_a, "ok", "int", FALSE) >>)
                                EXCEPT !.lenres = "ok",
                                       !.items = << Item(Dec(0), "lookup", "none") >>]
          \* an object with safely_stringify_for_pudb, whose keys() raises
          [] id = "hooked" -> [ObjectValue(<<"Hooked">>, << Attr(n_a, "ok", "txt", FALSE) >>)
                                EXCEPT !.tkind = "hook", !.hooktext = <<"hooked!">>,
                                       !.keysres = "exc"]
          \* a list of n + 1 elements, the first of which is the list itself
          [] id = "loop" -> ListValue([i \in 1..(n + 1) |->
                                         Item(Dec(i - 1), "ok",
                                              IF i = 1 THEN "loop" ELSE "int")])
          \* an object whose attribute a is the object itself
          [] id = "knot" -> ObjectValue(<<"Knot">>,
                                << Attr(n_a, "ok", "knot", FALSE) >>)
          \* the members of the WatchEvalError and of the function
          [] id = "err.__class__" ->
                Described("type", "other", "<class 'pudb.var_view.WatchEvalError'>",
                          WatchEvalErrorClassAttrs)
          [] id = "err.__str__" ->
                Described("method", "safe",
                          "<bound method WatchEvalError.__str__ of <WatchEvalError object>>",
                          BoundMethodAttrs)
          [] id = "fn.__class__" ->
                Described("type", "other", "<class 'function'>", FunctionClassAttrs)
          [] id = "fn.__code__" ->
                Described("code", "safe",
                          "<code object f>", CodeAttrs)
          [] id = "dct0" -> DictValue(<<>>)
          [] id = "tup0" -> TupleValue(<<>>)
          [] id = "consts" -> TupleValue(<< Item(Dec(0), "ok", "none") >>)
          [] id = "modname" -> PrimValue(<<"'pudb.var_view'">>)
          [] id = "fnmod" -> PrimValue(<<"'__main__'">>)
          [] id = "fnname" -> PrimValue(<<"'f'">>)
          [] id = "builtins" ->
                DictValue([i \in 1..Len(BuiltinsItems) |->
                             Item(StrRepr(BuiltinsItems[i][1]), "ok", BuiltinsItems[i][2])])
          [] id = "globals" ->
                DictValue(<< Item(StrRepr(Dunder(<<"n","a","m","e">>)), "ok", "fnmod"),
                             Item(StrRepr(Dunder(<<"b","u","i","l","t","i","n","s">>)), "ok", "builtins"),
                             Item(StrRepr(<<"f">>), "ok", "fn") >>)
          [] id \in FaceIds -> Faces[id]
          [] id \in RoutineIds ->
                RoutineValues[CHOOSE k \in 1..Len(RoutineValues) :
                                RoutineValues[k].id = id].value ]

\* len(value) of a built-in container
LenOf(d) == IF d.isset THEN Len(d.elems) ELSE Len(d.items)

\* type_stringifier; no value of the heap is a numpy array or number, so the
\* two numpy branches are never taken.
TypeStringifier(d) ==
    IF d.tkind = "safe" THEN
        IF d.strres = "ok" THEN d.strtext
        ELSE <<"!! ", "string safe type stringifier failed", " !!">>
    ELSE IF d.tkind = "hook" THEN
        LET result == IF d.hookres = "raise"
                        THEN <<"!! ", "safely_stringify_for_pudb call failed", " !!">>
                        ELSE d.hooktext
        IN  IF d.hookres # "nonstr" THEN result ELSE d.tname
    ELSE IF d.tkind = "builtin" THEN
        d.tname \o <<" (">> \o Dec(LenOf(d)) \o <<")">>
    ELSE d.tname

\* What a stringifier file can hold: "unreadable" (it is missing, or does not
\* compile: execfile raises before any of it runs), "no_hook" (it runs to
\* its end and defines no pudb_stringifier), "hook" (it defines one).  A
\* file that raises after a part of it has run is not among them.
StringifierFiles == {"unreadable", "no_hook", "hook"}

\* execfile(fname, globs): whether it raises, and the names globs holds after
\* it (exec adds __builtins__ to the globals it runs the file in).
ExecFile(file, globs) ==
    IF file = "unreadable" THEN [raised |-> TRUE, globs |-> globs]
    ELSE [ raised |-> FALSE,
           globs |-> globs \cup {"__builtins__"}
                        \cup (IF file = "hook" THEN {"pudb_stringifier"} ELSE {}) ]

\* get_stringifier(iinfo), custom_stringifier_dict holding the names dict and
\* the file at iinfo.display_type being file: the function returned ("type",
\* "repr", "str", "pudb_stringifier", or one of the two that return a
\* constant text), custom_stringifier_dict after the call, and whether the
\* call printed its complaint and waited in raw_input("Hit enter:").
GetStringifier(display_type, dict, file) ==
    IF display_type \in {"type", "repr", "str"}
        THEN [stringifier |-> display_type, dict |-> dict, prompt |-> FALSE]
    ELSE LET loaded == IF dict = {} THEN ExecFile(file, dict)
                       ELSE [raised |-> FALSE, globs |-> dict]
         IN  IF loaded.raised
                THEN [stringifier |-> "invalid file", dict |-> loaded.globs,
                      prompt |-> TRUE]
             ELSE IF "pudb_stringifier" \notin loaded.globs
                THEN [stringifier |-> "not defined", dict |-> loaded.globs,
                      prompt |-> TRUE]
             ELSE [stringifier |-> "pudb_stringifier", dict |-> loaded.globs,
                   prompt |-> FALSE]

\* get_stringifier(iinfo)(value): the text, or raised.
Stringify(display_type, d) ==
    LET f == GetStringifier(display_type, custom_stringifier_dict,
                            stringifier_file).stringifier
    IN  CASE f = "type" -> [raised |-> FALSE, text |-> TypeStringifier(d)]
          [] f = "repr" -> [raised |-> d.reprres # "ok", text |-> d.reprtext]
          [] f = "str"  -> [raised |-> d.strres # "ok", text |-> d.strtext]
          [] f = "invalid file" ->
                [raised |-> FALSE,
                 text |-> <<"ERROR: Invalid custom stringifier file.">>]
          [] f = "not defined" ->
                [raised |-> FALSE,
                 text |-> <<"ERROR: Invalid custom stringifier file: ",
                            "pudb_stringifer not defined.">>]
          [] f = "pudb_stringifier" ->
                [raised |-> d.customres # "ok", text |-> d.customtext]

-----------------------------------------------------------------------------
(* Identity paths *)

\* "%s[%d]" % (id_path, i)
SetChildPath(id_path, i) == id_path \o <<"[">> \o Dec(i) \o <<"]">>

\* "%s[%r]" % (id_path, key), given repr(key)
KeyChildPath(id_path, keyrepr) == id_path \o <<"[">> \o keyrepr \o <<"]">>

\* "%s.%s" % (id_path, key)
AttrChildPath(id_path, key) == id_path \o <<".">> \o key

\* "%s.cont-%d" % (id_path, n)
ContPathMutOwnPath(id_path, n) == id_path

ContPath(id_path, n) == id_path \o <<".", "c", "o", "n", "t", "-">> \o Dec(n)

-----------------------------------------------------------------------------
(* ValueWalker.walk_value *)

\* The number of elements after which a continuation is considered.
PageSize == 10

\* One add_item call: the parent's nesting level (-1 for no parent) fixes the
\* nesting level of the new item, which is what a child receives as parent.
EmitMutPathHoldsText(plevel, label, value_str, id_path, attr_prefix) ==
    [ level |-> plevel + 1, label |-> label, value_str |-> value_str,
      id_path |-> IF id_path = None \/ value_str = None THEN id_path
                  ELSE id_path \o value_str,
      attr_prefix |-> attr_prefix ]

Emit(plevel, label, value_str, id_path, attr_prefix) ==
    [ level |-> plevel + 1, label |-> label, value_str |-> value_str,
      id_path |-> id_path, attr_prefix |-> attr_prefix ]

\* The outcome of (a part of) a walk: the add_item calls made, in order; the
\* identity paths looked up, in order, by walk_value and by the add_item of
\* the walker (each of the three walkers looks up the path it is given, None
\* included); whether an exception left the walk;
\* the number of get_stringifier calls made for a display type that names a
\* stringifier file.
Outcome(calls, reads, exc) ==
    [calls |-> calls, reads |-> reads, exc |-> exc, custom_calls |-> 0]
Nothing == Outcome(<<>>, <<>>, FALSE)
Join(a, b) ==
    [ calls |-> a.calls \o b.calls, reads |-> a.reads \o b.reads, exc |-> b.exc,
      custom_calls |-> a.custom_calls + b.custom_calls ]

\* The get_stringifier(iinfo) call walk_value makes for a non-primitive value.
StringifierCall(iinfo) ==
    [ Nothing EXCEPT !.custom_calls =
        IF iinfo.display_type \in {"type", "repr", "str"} THEN 0 ELSE 1 ]

\* self.add_item(parent, label, value_str, id_path, attr_prefix)
AddItem(plevel, label, value_str, id_path, attr_prefix) ==
    Outcome(<<Emit(plevel, label, value_str, id_path, attr_prefix)>>,
            <<id_path>>, FALSE)

\* The key iterator of the container branch: value.keys(), else range(len)
\* when value[0] works, else [] when value[0] raises LookupError/TypeError;
\* none when the value is no container.
KeyIt(d) ==
    IF d.keysres = "ok" THEN [some |-> TRUE, keys |-> d.items]
    ELSE IF d.lenres # "ok" THEN [some |-> FALSE, keys |-> <<>>]
    ELSE LET item0 == IF d.items = <<>> THEN "lookup" ELSE d.items[1].res
         IN  IF item0 = "lookup" THEN [some |-> TRUE, keys |-> <<>>]
             ELSE IF item0 = "exc" THEN [some |-> FALSE, keys |-> <<>>]
             ELSE [some |-> TRUE,
                   keys |-> [i \in 1..Len(d.items) |->
                               Item(Dec(i - 1), d.items[i].res, d.items[i].val)]]

\* The display marker of an expanded node.
Marker(iinfo) ==
    LET m == IF iinfo.access_level = "public" THEN <<"pub">>
             ELSE IF iinfo.access_level = "private" THEN <<"pri">>
             ELSE <<"all">>
    IN  IF iinfo.show_methods THEN m \o <<"+()">> ELSE m

\* The text shown for a non-primitive value.
DisplayedValueMutNoMarker(iinfo, d) ==
    LET s == Stringify(iinfo.display_type, d)
        shown == IF s.raised THEN TypeStringifier(d) ELSE s.text
    IN  IF iinfo.show_detail THEN shown \o <<" [">> \o Marker(iinfo) \o <<"]">>
        ELSE shown

DisplayedValue(iinfo, d) ==
    LET s == Stringify(iinfo.display_type, d)
        shown == IF s.raised
                    THEN TypeStringifier(d)
                            \o <<" (!! ", iinfo.display_type, " error !!)">>
                    ELSE s.text
    IN  IF iinfo.show_detail THEN shown \o <<" [">> \o Marker(iinfo) \o <<"]">>
        ELSE shown

\* getattr(value, key)
AttrOf(d, key) ==
    d.attrs[CHOOSE i \in 1..Len(d.attrs) : d.attrs[i].name = key]

\* The summary label of the class branch.
SummaryLabel(cnt_omitted_private, cnt_omitted_methods) ==
    IF cnt_omitted_private # 0 THEN <<"<omitted private attributes>">>
    ELSE IF cnt_omitted_methods # 0 THEN <<"<omitted methods>">>
    ELSE <<"<empty>">>

\* The class branch's test for the summary leaf: "if not keys".
NoKeys(keys) == keys = <<>>

\* What an exception of value[key] does to the container loop: "break"
\* (caught: LookupError, TypeError) or "raise" (it leaves walk_value).
LookupFailure(res) == IF res = "lookup" THEN "break" ELSE "raise"

\* The leaves of the container branches.
EmptyLeaf(level) == AddItem(level, <<"<empty>">>, None, None, None)
ContLeafMutSilent(level, cont_id_path) == Nothing
ContLeaf(level, cont_id_path) == AddItem(level, <<"...">>, None, cont_id_path, None)

\* The lookup of a continuation path, made when the loop is at a page boundary.
ContCheck(paged, cont_id_path) ==
    IF paged THEN Outcome(<<>>, <<cont_id_path>>, FALSE) ELSE Nothing

\* dir(value), flattened and sorted: the class branch's keys.
ClassKeys(d) ==
    IF d.dirres = "ok"
        THEN SortNames([i \in 1..Len(d.attrs) |-> d.attrs[i].name], FALSE)
        ELSE <<>>

\* Whether the class branch skips key under the parent's access level.
HiddenByAccess(access_level, key) ==
    \/ access_level = "public" /\ StartsWith(key, <<"_">>)
    \/ access_level = "private"
        /\ StartsWith(key, <<"_", "_">>) /\ EndsWith(key, <<"_", "_">>)

\* Whether the class branch skips a resolved member as a method.
OmittedMethod(a, show_methods) == a.res = "ok" /\ a.routine /\ ~show_methods

RECURSIVE WalkValue(_, _, _, _, _, _, _, _)

\* What one iteration of a loop did: its outcome, whether the loop was left
\* in it (break, or an exception), the number of elements it walked, and the
\* names it omitted as private and as methods.
NoSteps == [out |-> Nothing, stop |-> FALSE, cnt |-> 0, priv |-> 0, meth |-> 0]
Stopped(out) == [out |-> out, stop |-> TRUE, cnt |-> 0, priv |-> 0, meth |-> 0]
Walked(pre, r) ==
    [ out |-> Join(pre, r), stop |-> r.exc, cnt |-> IF r.exc THEN 0 ELSE 1,
      priv |-> 0, meth |-> 0 ]
OmittedPrivate == [NoSteps EXCEPT !.priv = 1]
OmittedAsMethod == [NoSteps EXCEPT !.meth = 1]

\* Two stretches of iterations, one after the other.
Then(left, right) ==
    [ out |-> Join(left.out, right.out), stop |-> right.stop,
      cnt |-> left.cnt + right.cnt, priv |-> left.priv + right.priv,
      meth |-> left.meth + right.meth ]

\* The iterations lo..hi of steps, in order (joined by halves).
RECURSIVE ThenAll(_, _, _)
ThenAll(steps, lo, hi) ==
    IF lo > hi THEN NoSteps
    ELSE IF lo = hi THEN steps[lo]
    ELSE Then(ThenAll(steps, lo, (lo + hi) \div 2),
              ThenAll(steps, (lo + hi) \div 2 + 1, hi))

\* The number of iterations a loop makes, steps[i] being what its i-th
\* iteration does when reached: all up to the first that leaves the loop.
Made(steps) ==
    IF \E i \in 1..Len(steps) : steps[i].stop
        THEN CHOOSE i \in 1..Len(steps) :
                steps[i].stop /\ \A j \in 1..(i - 1) : ~steps[j].stop
        ELSE Len(steps)

\* What a loop does.
LoopOf(steps) == ThenAll(steps, 1, Made(steps))

\* The set loop's iteration for entry i (counted from 0).
SetStep(cfg, st, hp, level, d, id_path, i) ==
    LET paged == i % PageSize = 0 /\ i # 0
        cont_id_path == ContPath(id_path, i)
    IN  IF paged /\ ~ReadInfo(cfg, st, cont_id_path).show_detail
        THEN Stopped(Join(ContCheck(paged, cont_id_path),
                          ContLeaf(level, cont_id_path)))
        ELSE Walked(ContCheck(paged, cont_id_path),
                    WalkValue(cfg, st, hp, level, None, d.elems[i + 1],
                              SetChildPath(id_path, i), None))

\* What follows the set loop: "if not value".
SetDone(level, d, out) ==
    IF out.exc \/ d.elems # <<>> THEN out ELSE Join(out, EmptyLeaf(level))

\* The set branch.
WalkSet(cfg, st, hp, level, d, id_path) ==
    SetDone(level, d,
            LoopOf([i \in 1..Len(d.elems) |->
                        SetStep(cfg, st, hp, level, d, id_path, i - 1)]).out)

\* The container loop's iteration with cnt elements walked.
KeysStep(cfg, st, hp, level, key_it, id_path, cnt) ==
    LET paged == cnt % PageSize = 0 /\ cnt # 0
        cont_id_path == ContPath(id_path, cnt)
        key == key_it[cnt + 1]
    IN  IF paged /\ ~ReadInfo(cfg, st, cont_id_path).show_detail
        THEN Stopped(Join(ContCheck(paged, cont_id_path),
                          ContLeaf(level, cont_id_path)))
        ELSE IF key.res # "ok" THEN
            Stopped(Join(ContCheck(paged, cont_id_path),
                         Outcome(<<>>, <<>>, LookupFailure(key.res) = "raise")))
        ELSE Walked(ContCheck(paged, cont_id_path),
                    WalkValue(cfg, st, hp, level, key.key, key.val,
                              KeyChildPath(id_path, key.key), None))

\* What follows the container loop: "if not cnt".
KeysDone(level, steps) ==
    IF steps.out.exc \/ steps.cnt # 0 THEN steps.out
    ELSE Join(steps.out, EmptyLeaf(level))

\* The container branch.
WalkKeys(cfg, st, hp, level, key_it, id_path) ==
    KeysDone(level,
             LoopOf([i \in 1..Len(key_it) |->
                        KeysStep(cfg, st, hp, level, key_it, id_path, i - 1)]))

\* The class loop's iteration for the name key, a being what getattr gives.
AttrsStep(cfg, st, hp, level, iinfo, id_path, key, a) ==
    IF HiddenByAccess(iinfo.access_level, key) THEN OmittedPrivate
    ELSE IF OmittedMethod(a, iinfo.show_methods) THEN OmittedAsMethod
    ELSE Walked(Nothing,
                WalkValue(cfg, st, hp, level, <<".">> \o key,
                          IF a.res = "ok" THEN a.val ELSE "err",
                          AttrChildPath(id_path, key), None))

\* What follows the class loop: the summary leaf and the "<?>" leaf.
AttrsDone(level, keys, steps, has_key_its) ==
    IF steps.out.exc THEN steps.out
    ELSE Join(steps.out,
              Join(IF NoKeys(keys)
                       THEN AddItem(level, SummaryLabel(steps.priv, steps.meth),
                                    None, None, None)
                       ELSE Nothing,
                   IF ~has_key_its
                       THEN AddItem(level, <<"<?>">>, None, None, None)
                       ELSE Nothing))

\* The class branch over the sorted names keys.
WalkAttrs(cfg, st, hp, level, d, iinfo, id_path, keys) ==
    AttrsDone(level, keys,
              LoopOf([j \in 1..Len(keys) |->
                        AttrsStep(cfg, st, hp, level, iinfo, id_path, keys[j],
                                  AttrOf(d, keys[j]))]),
              d.dirres = "ok")

\* The branches of an expanded value below its node, whose nesting level is level.
Expand(cfg, st, hp, level, d, iinfo, id_path, key_it) ==
    IF d.isset THEN WalkSet(cfg, st, hp, level, d, id_path)
    ELSE IF key_it.some THEN WalkKeys(cfg, st, hp, level, key_it.keys, id_path)
    ELSE WalkAttrs(cfg, st, hp, level, d, iinfo, id_path, ClassKeys(d))

\* walk_value once id_path is resolved and the state of id_path is looked up.
WalkResolvedMutAddsLeaf(cfg, st, hp, plevel, label, d, id_path, attr_prefix, iinfo) ==
    Join(Join(Outcome(<<>>, <<id_path>>, FALSE),
              AddItem(plevel, label, d.reprtext, id_path, attr_prefix)),
         EmptyLeaf(plevel + 1))

WalkResolved(cfg, st, hp, plevel, label, d, id_path, attr_prefix, iinfo) ==
    IF d.prim THEN
        Join(Outcome(<<>>, <<id_path>>, FALSE),
             AddItem(plevel, label, d.reprtext, id_path, attr_prefix))
    ELSE
        Join(Join(Join(Outcome(<<>>, <<id_path>>, FALSE), StringifierCall(iinfo)),
                  AddItem(plevel, label, DisplayedValue(iinfo, d), id_path,
                          attr_prefix)),
             IF ~iinfo.show_detail THEN Nothing
             ELSE Expand(cfg, st, hp, plevel + 1, d, iinfo, id_path, KeyIt(d)))

\* walk_value(parent, label, value, id_path, attr_prefix); plevel is the
\* parent's nesting level, -1 when parent is None.
WalkValue(cfg, st, hp, plevel, label, v, id_path_arg, attr_prefix) ==
    WalkResolved(cfg, st, hp, plevel, label, hp[v],
                 IF id_path_arg = None THEN label ELSE id_path_arg, attr_prefix,
                 ReadInfo(cfg, st, IF id_path_arg = None THEN label ELSE id_path_arg))

-----------------------------------------------------------------------------
(* The node sinks *)

\* VariableWidget(parent, var_label, value_str, id_path, attr_prefix,
\*                watch_expr, iinfo): the fields the constructor sets.
VariableWidget(call, attr_prefix, watch_expr, iinfo) ==
    [ nesting_level |-> call.level,
      var_label     |-> call.label,
      value_str     |-> call.value_str,
      id_path       |-> call.id_path,
      attr_prefix   |-> IF attr_prefix = None THEN <<"var">> ELSE attr_prefix,
      watch_expr    |-> watch_expr,
      wrap          |-> iinfo.wrap ]

\* The attr_prefix an add_item passes on.
AttrPrefix(iinfo, attr_prefix) ==
    IF iinfo.highlighted THEN <<"highlighted var">> ELSE attr_prefix

\* BasicValueWalker.add_item: the widget appended to widget_list.
BasicAddItem(cfg, st, call) ==
    LET iinfo == ReadInfo(cfg, st, call.id_path)
    IN  VariableWidget(call, AttrPrefix(iinfo, call.attr_prefix), None, iinfo)

\* WatchValueWalker.add_item: the widget appended to the shared widget_list.
WatchAddItem(cfg, st, call, watch_expr) ==
    LET iinfo == ReadInfo(cfg, st, call.id_path)
    IN  VariableWidget(call, AttrPrefix(iinfo, call.attr_prefix), watch_expr, iinfo)

\* str.partition(sep): <<before, sep, after>> around the first occurrence.
Partition(s, sep) ==
    LET at == { i \in 1..(Len(s) - Len(sep) + 1) :
                    SubSeq(s, i, i + Len(sep) - 1) = sep }
    IN  IF at = {} THEN << s, <<>>, <<>> >>
        ELSE LET k == CHOOSE i \in at : \A j \in at : i <= j
             IN  << SubSeq(s, 1, k - 1), sep, SubSeq(s, k + Len(sep), Len(s)) >>

\* TopAndMainVariableWalker._should_repeat_at_top
ShouldRepeatAtTop(id_path, tipp) ==
    IF id_path = None THEN FALSE
    ELSE IF id_path = tipp THEN TRUE
    ELSE LET parts == Partition(id_path, tipp)
             before == parts[1]
             sep == parts[2]
             after == parts[3]
         IN  /\ before = <<>>
             /\ sep = tipp
             /\ Len(after) > 0
             /\ after[1] \in {".", "<", "["}

\* Whether add_item records the path of its call as a pinned prefix.
RecordsPrefixMutNever(iinfo, id_path) == FALSE
RecordsPrefix(iinfo, id_path) == iinfo.repeated_at_top /\ id_path # None

\* Whether add_item on this call appends to top_id_path_prefixes.
Pins(cfg, st, call) == RecordsPrefix(ReadInfo(cfg, st, call.id_path), call.id_path)

\* top_id_path_prefixes after the add_item calls 1..k of a walker that was
\* given calls: the paths of those that were recorded, in order.
PrefixesAfter(cfg, st, calls, k) ==
    LET recorded == SelectSeq(SubSeq(calls, 1, k), LAMBDA c : Pins(cfg, st, c))
    IN  [j \in 1..Len(recorded) |-> recorded[j].id_path]

\* TopAndMainVariableWalker.add_item, top_id_path_prefixes holding prefixes
\* when it is called: the list after the call, the widget appended to
\* main_widget_list, and whether a widget is appended to top_widget_list.
TopAndMainAddItem(cfg, st, prefixes, call) ==
    LET iinfo == ReadInfo(cfg, st, call.id_path)
        attr_prefix == AttrPrefix(iinfo, call.attr_prefix)
        after == IF RecordsPrefix(iinfo, call.id_path)
                    THEN Append(prefixes, call.id_path)
                    ELSE prefixes
    IN  [ top_id_path_prefixes |-> after,
          repeated_at_top |->
            \/ iinfo.repeated_at_top
            \/ \E k \in 1..Len(after) : ShouldRepeatAtTop(call.id_path, after[k]),
          item |-> VariableWidget(call, attr_prefix, None, iinfo) ]

\* The lists of the walker after the add_item calls whose effects are added.
TopAndMainLists(added, prefixes) ==
    LET at_top == SelectSeq(added, LAMBDA a : a.repeated_at_top)
    IN  [ main_widget_list |-> [k \in 1..Len(added) |-> added[k].item],
          top_widget_list |-> [k \in 1..Len(at_top) |-> at_top[k].item],
          top_id_path_prefixes |-> prefixes ]

\* A TopAndMainVariableWalker(frame_var_info) after the add_item calls of
\* its walks, in order.
TopAndMainAddAll(cfg, st, calls) ==
    TopAndMainLists(
        [k \in 1..Len(calls) |->
            TopAndMainAddItem(cfg, st, PrefixesAfter(cfg, st, calls, k - 1), calls[k])],
        PrefixesAfter(cfg, st, calls, Len(calls)))

-----------------------------------------------------------------------------
(* make_var_view *)

SEPARATOR == [separator |-> TRUE]

n_return == <<"_","_","r","e","t","u","r","n","_","_">>

\* Whether a local name is left out of the main tree.
IsDunder(var) == StartsWith(var, <<"_", "_">>) /\ EndsWith(var, <<"_", "_">>)

\* locals[var]
LocalValue(locals, var) ==
    locals[CHOOSE i \in 1..Len(locals) : locals[i].name = var].val

\* The iteration of the loop over the watches for one watch: the walk of
\* what its expression evaluates to (a WatchEvalError when eval raises).
WatchStep(cfg, st, hp, watch_expr) ==
    Walked(Nothing,
           WalkValue(cfg, st, hp, -1, watch_expr.expression,
                     IF watch_expr.res = "ok" THEN watch_expr.val ELSE "err",
                     None, None))

\* The loop over frame_var_info.watches.
WalkWatches(cfg, st, hp, watches) ==
    [i \in 1..Len(watches) |-> WatchStep(cfg, st, hp, watches[i])]

\* The widgets one watch walker appends to the shared watch_widget_list.
WatchWidgets(cfg, st, calls, watch_expr) ==
    [k \in 1..Len(calls) |-> WatchAddItem(cfg, st, calls[k], watch_expr.expression)]

\* watch_widget_list after the walks of the watches i.. (steps: their walks).
RECURSIVE WatchWidgetList(_, _, _, _, _)
WatchWidgetList(cfg, st, watches, steps, i) ==
    IF i > Len(watches) THEN <<>>
    ELSE WatchWidgets(cfg, st, steps[i].out.calls, watches[i])
            \o WatchWidgetList(cfg, st, watches, steps, i + 1)

\* The walk of the return value, made when "__return__" is a local.
WalkReturn(cfg, st, hp, locals, vs) ==
    IF \E i \in 1..Len(vs) : vs[i] = n_return
        THEN WalkValue(cfg, st, hp, -1, <<"R", "e", "t", "u", "r", "n">>, LocalValue(locals, n_return),
                       None, <<"return">>)
        ELSE Nothing

\* The widgets of the return walk.
ReturnWidgets(cfg, st, calls) ==
    [k \in 1..Len(calls) |-> BasicAddItem(cfg, st, calls[k])]

\* The iteration of the loop over the sorted local names for the name var.
LocalStep(cfg, st, hp, locals, var) ==
    IF IsDunder(var) THEN NoSteps
    ELSE Walked(Nothing,
                WalkValue(cfg, st, hp, -1, var, LocalValue(locals, var), None, None))

\* The loop over the sorted local names vs.
WalkLocals(cfg, st, hp, locals, vs) ==
    [i \in 1..Len(vs) |-> LocalStep(cfg, st, hp, locals, vs[i])]

\* The store after the lookups of a traversal, each made read-only.  A
\* lookup of a path leaves the records of all other paths alone, so the
\* store after all of them holds what each of them leaves of its own path.
AfterLookups(cfg, st, reads) ==
    LET after == [i \in 1..Len(reads) |->
                    GetInspectInfo(cfg, st, reads[i], TRUE).store]
        paths == DOMAIN st \cup UNION { DOMAIN after[i] : i \in 1..Len(reads) }
    IN  [ p \in paths |->
            IF p \in DOMAIN st THEN st[p]
            ELSE after[CHOOSE i \in 1..Len(reads) : p \in DOMAIN after[i]][p] ]

\* The result list make_var_view builds from the four widget lists.
AssembleMutWatchesFirst(ret_list, top_list, watch_list, main_list) ==
    LET r1 == main_list
        r2 == IF top_list # <<>> THEN top_list \o <<SEPARATOR>> \o r1 ELSE r1
        r3 == IF watch_list # <<>> THEN watch_list \o <<SEPARATOR>> \o r2 ELSE r2
    IN  IF ret_list # <<>> THEN ret_list \o r3 ELSE r3

Assemble(ret_list, top_list, watch_list, main_list) ==
    LET r1 == main_list
        r2 == IF watch_list # <<>> THEN watch_list \o <<SEPARATOR>> \o r1 ELSE r1
        r3 == IF top_list # <<>> THEN top_list \o <<SEPARATOR>> \o r2 ELSE r2
    IN  IF ret_list # <<>> THEN ret_list \o r3 ELSE r3

\* make_var_view when no exception leaves it: tmv_walker being the Top/Main
\* walker after the walks of the locals.
ViewReturned(cfg, st, watch_list, ret, tmv_walker, reads, custom_calls) ==
    [ raised |-> FALSE, custom_calls |-> custom_calls,
      result |-> Assemble(ReturnWidgets(cfg, st, ret.calls),
                          tmv_walker.top_widget_list, watch_list,
                          tmv_walker.main_widget_list),
      store |-> AfterLookups(cfg, st, reads) ]

\* make_var_view left by an exception, after the lookups reads.
ViewRaised(cfg, st, reads, custom_calls) ==
    [ raised |-> TRUE, custom_calls |-> custom_calls, result |-> <<>>,
      store |-> AfterLookups(cfg, st, reads) ]

\* make_var_view after the loop over the locals.
ViewAfterLocals(cfg, st, watches, steps, watch, ret, main) ==
    IF main.exc THEN ViewRaised(cfg, st, watch.reads \o ret.reads \o main.reads,
                                watch.custom_calls + ret.custom_calls
                                    + main.custom_calls)
    ELSE ViewReturned(cfg, st, WatchWidgetList(cfg, st, watches, steps, 1), ret,
                      TopAndMainAddAll(cfg, st, main.calls),
                      watch.reads \o ret.reads \o main.reads,
                      watch.custom_calls + ret.custom_calls + main.custom_calls)

\* make_var_view after the walk of the return value.
ViewAfterReturn(cfg, st, fr, hp, vs, steps, watch, ret) ==
    IF ret.exc THEN ViewRaised(cfg, st, watch.reads \o ret.reads,
                               watch.custom_calls + ret.custom_calls)
    ELSE ViewAfterLocals(cfg, st, fr.watches, steps, watch, ret,
                         LoopOf(WalkLocals(cfg, st, hp, fr.locals, vs)).out)

\* make_var_view after the loop over the watches.
ViewAfterWatches(cfg, st, fr, hp, vs, steps, watch) ==
    IF watch.exc THEN ViewRaised(cfg, st, watch.reads, watch.custom_calls)
    ELSE ViewAfterReturn(cfg, st, fr, hp, vs, steps, watch,
                         WalkReturn(cfg, st, hp, fr.locals, vs))

\* make_var_view with the walks of the watches given.
ViewOf(cfg, st, fr, hp, steps) ==
    ViewAfterWatches(cfg, st, fr, hp,
        SortNames([i \in 1..Len(fr.locals) |-> fr.locals[i].name], TRUE),
        steps, LoopOf(steps).out)

\* make_var_view(frame_var_info, locals, globals).  fr.watches gives, per
\* watch expression, the outcome of eval(expression, globals, locals).
\* raised: an exception left the call (result is then never returned);
\* store: id_path_to_iinfo after the call; custom_calls: the number of
\* get_stringifier calls it made for a stringifier file.
MakeVarView(cfg, st, fr, hp) ==
    ViewOf(cfg, st, fr, hp, WalkWatches(cfg, st, hp, fr.watches))

-----------------------------------------------------------------------------
(* The debuggee's frames *)

Local(n, v) == [name |-> n, val |-> v]
Watch(e, r, v) == [expression |-> e, res |-> r, val |-> v]

FrameNames ==
    { "assembly", "list", "set", "map", "failing", "objects", "strings", "paths",
      "cycles" }

\* locals in dict order; watches with the outcome of their evaluation.
Frames ==
    [ f \in FrameNames |->
        CASE f = "assembly" ->
                [ locals  |-> << Local(<<"b">>, "lst3"),
                                 Local(n_return, "dct"),
                                 Local(<<"a">>, "int"),
                                 Local(<<"_","_","x","_","_">>, "txt"),
                                 Local(<<"A">>, "lst0"),
                                 Local(<<"a", "b">>, "hid") >>,
                  watches |-> << Watch(<<"w">>, "ok", "lst3"),
                                 Watch(<<"q">>, "raise", "none") >> ]
          [] f = "list" ->
                [ locals  |-> << Local(<<"c">>, "big") >>, watches |-> <<>> ]
          [] f = "set" ->
                [ locals  |-> << Local(<<"c">>, "set") >>, watches |-> <<>> ]
          [] f = "map" ->
                [ locals  |-> << Local(<<"c">>, "map") >>, watches |-> <<>> ]
          [] f = "failing" ->
                [ locals  |-> << Local(<<"x">>, "badmap"),
                                 Local(<<"w">>, "worsemap"),
                                 Local(<<"z">>, "sized"),
                                 Local(<<"y">>, "lst3") >>,
                  watches |-> << Watch(<<"b">>, "ok", "badmap") >> ]
          [] f = "objects" ->
                [ locals  |-> << Local(<<"o">>, "obj"),
                                 Local(<<"h">>, "hid"),
                                 Local(<<"d">>, "nodir"),
                                 Local(<<"e">>, "bare") >>,
                  watches |-> <<>> ]
          [] f = "strings" ->
                [ locals  |-> << Local(<<"s">>, "sour"),
                                 Local(<<"k">>, "hooked"),
                                 Local(<<"f">>, "fn"),
                                 Local(<<"i">>, "int") >>,
                  watches |-> << Watch(<<"q">>, "raise", "none") >> ]
          [] f = "paths" ->
                [ locals  |-> << Local(<<"b">>, "lst3"),
                                 Local(<<"c">>, "cyc") >>,
                  watches |-> << Watch(<<"d">>, "ok", "dct") >> ]
          [] f = "cycles" ->
                [ locals  |-> << Local(<<"c">>, "loop"),
                                 Local(<<"k">>, "knot") >>,
                  watches |-> <<>> ] ]

-----------------------------------------------------------------------------
(* Rendering a node (VariableWidget.rows, VariableWidget.render)           *)
(*                                                                         *)
(* The text of a rendered node is a sequence of characters, one per        *)
(* element: the code cuts it by character positions and measures it in     *)
(* display columns, and the two differ for a double-width character.       *)

\* A double-width character, and the narrow ones of the inputs.
WideChar == "\\u4e2d"
NarrowChar == "a"

\* pudb.ui_tools.text_width: the number of display columns of a text.
CharWidth(c) == IF c = WideChar THEN 2 ELSE 1
RECURSIVE text_width(_)
text_width(s) == IF s = <<>> THEN 0 ELSE CharWidth(Head(s)) + text_width(Tail(s))

\* A bound of a Python slice, brought into 0..len.
SliceBound(n, len) ==
    IF n < 0 THEN (IF n + len < 0 THEN 0 ELSE n + len)
    ELSE IF n > len THEN len ELSE n

\* s[lo:hi], s[:hi] and s[lo:]
Slice(s, lo, hi) == SubSeq(s, SliceBound(lo, Len(s)) + 1, SliceBound(hi, Len(s)))
SliceTo(s, hi) == Slice(s, 0, hi)
SliceFrom(s, lo) == Slice(s, lo, Len(s))

\* a // b and a % b of Python (b # 0): the quotient is rounded down.
FloorDiv(a, b) ==
    LET n == IF b > 0 THEN a ELSE 0 - a
        d == IF b > 0 THEN b ELSE 0 - b
    IN  IF n >= 0 THEN n \div d ELSE 0 - ((0 - n + d - 1) \div d)
FloorMod(a, b) == a - b * FloorDiv(a, b)

\* fulllines + bool(rest) for fulllines, rest = divmod(a, b)
DivModCount(a, b) == FloorDiv(a, b) + (IF FloorMod(a, b) # 0 THEN 1 ELSE 0)

\* VariableWidget.PREFIX and self.prefix
PREFIX == <<"|", " ">>
RECURSIVE Prefix(_)
Prefix(nesting_level) ==
    IF nesting_level <= 0 THEN <<>> ELSE PREFIX \o Prefix(nesting_level - 1)

\* self.var_label or "", self.value_str or ""
OrEmpty(text) == IF text = None THEN <<>> ELSE text

\* What a method of the widget gives: a result, or an exception.
Raised == [raised |-> TRUE]
Lines(text) == [raised |-> FALSE, text |-> text]

\* VariableWidget._get_wrapped_lines
get_wrapped_lines(w, maxcol_arg) ==
    LET prefix == Prefix(w.nesting_level)
        mc == maxcol_arg - Len(prefix)
        alltext == OrEmpty(w.var_label) \o <<":", " ">> \o OrEmpty(w.value_str)
        firstline == prefix \o SliceTo(alltext, mc)
    IN  IF SliceFrom(alltext, mc) = <<>> THEN Lines(<<firstline>>)
        ELSE IF mc - 2 = 0 THEN Raised
        ELSE LET n == DivModCount(text_width(alltext) - mc, mc - 2)
                 restlines == [ k \in 1..(IF n > 0 THEN n ELSE 0) |->
                                  Slice(alltext, (mc - 2) * (k - 1) + mc,
                                        (mc - 2) * (k - 1) + 2 * mc - 2) ]
             IN  Lines(<<firstline>>
                        \o [ k \in 1..Len(restlines) |->
                               prefix \o <<" ", " ">> \o restlines[k] ])

\* VariableWidget.rows
rows(w, maxcol_arg) ==
    LET lines == get_wrapped_lines(w, maxcol_arg)
    IN  IF lines.raised THEN Raised
        ELSE [ raised |-> FALSE,
               rows |-> IF w.wrap THEN Len(lines.text)
                        ELSE IF Len(lines.text) > 1 THEN 2 ELSE 1 ]

\* urwid.util.rle_subseg(rle, start, end): the runs of rle between the
\* columns start and end.  k is the run the loop is at, l the runs kept so
\* far, x the column reached.
RECURSIVE RleSubsegFrom(_, _, _, _, _, _)
RleSubsegFrom(rle, k, l, x, start, end) ==
    IF k > Len(rle) THEN l
    ELSE IF start # 0 /\ start >= rle[k][2]
        THEN RleSubsegFrom(rle, k + 1, l, x + rle[k][2], start - rle[k][2], end)
    ELSE LET x1 == x + start
             run1 == rle[k][2] - start
             run2 == IF x1 + run1 > end THEN end - x1 ELSE run1
         IN  IF x1 >= end THEN l
             ELSE RleSubsegFrom(rle, k + 1, Append(l, <<rle[k][1], run2>>),
                                x1 + run2, 0, end)
rle_subseg(rle, start, end) == RleSubsegFrom(rle, 1, <<>>, 0, start, end)

\* sum([text_width(i) for i in text])
RECURSIVE TotalWidth(_)
TotalWidth(text) ==
    IF text = <<>> THEN 0 ELSE text_width(Head(text)) + TotalWidth(Tail(text))

\* apfx
Apfx(w, focus) ==
    (IF focus THEN <<"focused ">> ELSE <<>>) \o w.attr_prefix \o <<" ">>

\* What render hands to make_canvas: the lines and, per line, the color spans.
Canvas(text, attr) == [raised |-> FALSE, text |-> text, attr |-> attr]

\* render, wrapping mode
RenderWrapped(w, maxcol_arg, focus) ==
    LET lines == get_wrapped_lines(w, maxcol_arg)
        var_label == OrEmpty(w.var_label)
        prefix == Prefix(w.nesting_level)
    IN  IF lines.raised \/ maxcol_arg = 0 THEN Raised
        ELSE LET extralabel == DivModCount(
                        text_width(SliceFrom(var_label, maxcol_arg)), maxcol_arg)
                 totallen == TotalWidth(lines.text)
                 labellen == Len(prefix) + (Len(prefix) + 2) * extralabel
                                + text_width(var_label) + 2
                 attr0 == << <<Apfx(w, focus) \o <<"label">>, labellen>>,
                             <<Apfx(w, focus) \o <<"value">>, totallen - labellen>> >>
                 n == DivModCount(totallen, maxcol_arg)
             IN  Canvas(lines.text,
                        [ i \in 1..(IF n > 0 THEN n ELSE 0) |->
                            rle_subseg(attr0, (i - 1) * maxcol_arg, i * maxcol_arg) ])

\* The end of render: a line wider than maxcol is cut and marked.
Truncate(line, maxcol_arg) ==
    IF text_width(line) > maxcol_arg
        THEN SliceTo(line, maxcol_arg - 3) \o <<".", ".", ".">>
        ELSE line

\* Whether render, not wrapping, splits the node in a label and a value line.
TwoLineSplit(w, maxcol_arg) ==
    /\ w.value_str # None
    /\ w.var_label # None
    /\ ~get_wrapped_lines(w, maxcol_arg).raised
    /\ Len(get_wrapped_lines(w, maxcol_arg).text) > 1

\* render, non-wrapping mode
RenderUnwrapped(w, maxcol_arg, focus) ==
    LET prefix == Prefix(w.nesting_level)
        lprefix == Len(prefix)
        label == Apfx(w, focus) \o <<"label">>
        value == Apfx(w, focus) \o <<"value">>
        drawn_as ==
            IF w.value_str # None /\ w.var_label # None
                THEN IF TwoLineSplit(w, maxcol_arg)
                    THEN Canvas(<< prefix \o w.var_label \o <<":">>,
                                   prefix \o <<" ", " ">> \o w.value_str >>,
                                << << <<label, lprefix + text_width(w.var_label) + 1>> >>,
                                   << <<value, lprefix + 2 + text_width(w.value_str)>> >> >>)
                    ELSE Canvas(<< prefix \o w.var_label \o <<":", " ">> \o w.value_str >>,
                                << << <<label, lprefix + text_width(w.var_label) + 2>>,
                                      <<value, text_width(w.value_str)>> >> >>)
            ELSE IF w.value_str # None
                THEN Canvas(<< prefix \o w.value_str >>,
                            << << <<label, lprefix>>,
                                  <<value, text_width(w.value_str)>> >> >>)
            ELSE Canvas(<< prefix \o w.var_label >>,
                        << << <<label, lprefix + text_width(w.var_label)>> >> >>)
    IN  IF w.value_str # None /\ w.var_label # None
            /\ get_wrapped_lines(w, maxcol_arg).raised THEN Raised
        ELSE IF w.value_str = None /\ w.var_label = None THEN Raised
        ELSE Canvas([ i \in 1..Len(drawn_as.text) |->
                        Truncate(drawn_as.text[i], maxcol_arg) ],
                    drawn_as.attr)

\* VariableWidget.render
render(w, maxcol_arg, focus) ==
    IF w.wrap THEN RenderWrapped(w, maxcol_arg, focus)
    ELSE RenderUnwrapped(w, maxcol_arg, focus)

-----------------------------------------------------------------------------
(* The state machine: user commands on the store, refreshes of the view *)

\* The call make_var_view(frame_var_info, locals, globals) of this state.
CurrentView == MakeVarView(config, store, Frames[frame], Heap(gen, size))

NoView == [raised |-> FALSE, result |-> <<>>]

\* No widget is being drawn; nothing was asked of the widget yet.
NoWidget == [nesting_level |-> -1]
NotDrawn == [op |-> "none"]

\* The identity paths of the widgets on screen: all of them, those of the
\* root widgets, and those of the root widgets and continuation markers.
Widgets == { k \in 1..Len(view.result) :
                /\ view.result[k] # SEPARATOR
                /\ view.result[k].id_path # None }
VisiblePaths == { view.result[k].id_path : k \in Widgets }
RootPaths ==
    { view.result[k].id_path :
        k \in { j \in Widgets : view.result[j].nesting_level = 0 } }
ExpanderPaths ==
    { view.result[k].id_path :
        k \in { j \in Widgets : \/ view.result[j].nesting_level = 0
                                \/ view.result[j].var_label = <<"...">> } }

Fields == { "show_detail", "display_type", "highlighted", "repeated_at_top",
            "access_level", "show_methods", "wrap" }

\* The size of the store: per record, the number of its fields that differ
\* from the session default, and at least one.
Weight(st) ==
    Cardinality({ pf \in (DOMAIN st) \X Fields :
                    st[pf[1]][pf[2]] # InspectInfo(config)[pf[2]] })
    + Cardinality({ p \in DOMAIN st : st[p] = InspectInfo(config) })

\* A user command on the widget at id_path: the writable lookup, then the
\* change of one field of the record it returned.
SetField(id_path, field, value, budget) ==
    LET got == GetInspectInfo(config, store, id_path, FALSE)
        st2 == [got.store EXCEPT ![id_path] = [got.iinfo EXCEPT ![field] = value]]
    IN  /\ pc = "shown"
        /\ got.iinfo[field] # value
        /\ Weight(st2) <= budget
        /\ store' = st2
        /\ pc' = "dirty"
        /\ UNCHANGED <<config, frame, size, gen, view, stringifier_file,
                       custom_stringifier_dict, prompts, widget, maxcol, drawn>>

ToggleDetail(paths, budget) ==
    \E p \in paths, b \in BOOLEAN : SetField(p, "show_detail", b, budget)

TogglePin(paths, budget) ==
    \E p \in paths, b \in BOOLEAN : SetField(p, "repeated_at_top", b, budget)

ToggleHighlight(paths, budget) ==
    \E p \in paths, b \in BOOLEAN : SetField(p, "highlighted", b, budget)

ToggleWrap(paths, budget) ==
    \E p \in paths, b \in BOOLEAN : SetField(p, "wrap", b, budget)

ToggleMethods(paths, budget) ==
    \E p \in paths, b \in BOOLEAN : SetField(p, "show_methods", b, budget)

SetAccessLevel(paths, budget) ==
    \E p \in paths, a \in AccessLevels : SetField(p, "access_level", a, budget)

SetDisplayType(paths, budget) ==
    \E p \in paths, t \in DisplayTypes : SetField(p, "display_type", t, budget)

\* make_var_view returns (or is left by an exception): the pane shows what
\* it made.
Show(made) ==
    /\ view' = [raised |-> made.raised, result |-> made.result]
    /\ store' = made.store
    /\ pc' = "shown"
    /\ prompts' = 0
    /\ UNCHANGED <<config, frame, size, gen, stringifier_file, widget, maxcol, drawn>>

\* The variables pane is rebuilt: one make_var_view call.  The first
\* get_stringifier call for a stringifier file loads the file; when the file
\* gives no pudb_stringifier, every such call of the walk prints its
\* complaint and waits in raw_input, and the call returns only after the
\* user has answered each of them.
Refresh ==
    LET made == CurrentView
        got == GetStringifier("custom", custom_stringifier_dict, stringifier_file)
    IN  /\ pc # "waiting"
        /\ custom_stringifier_dict' =
                IF made.custom_calls > 0 THEN got.dict ELSE custom_stringifier_dict
        /\ IF made.custom_calls > 0 /\ got.prompt
              THEN /\ pc' = "waiting"
                   /\ prompts' = made.custom_calls
                   /\ UNCHANGED <<config, frame, size, gen, store, view,
                                  stringifier_file, widget, maxcol, drawn>>
              ELSE Show(made)

\* The user answers the prompt make_var_view waits in: the walk goes on to
\* the next prompt, or to its end.  (The input is taken to be open: raw_input
\* returns.)
HitEnter ==
    /\ pc = "waiting"
    /\ UNCHANGED custom_stringifier_dict
    /\ IF prompts > 1
          THEN /\ prompts' = prompts - 1
               /\ UNCHANGED <<config, frame, size, gen, store, view, pc,
                              stringifier_file, widget, maxcol, drawn>>
          ELSE Show(CurrentView)

\* The debuggee runs on: the leaves change, the shapes do not.
Resume ==
    /\ pc # "waiting"
    /\ gen' = IF gen = 1 THEN 2 ELSE 1
    /\ pc' = "dirty"
    /\ UNCHANGED <<config, frame, size, store, view, stringifier_file,
                   custom_stringifier_dict, prompts, widget, maxcol, drawn>>

\* After construction: an empty store, nothing shown yet, no stringifier
\* file loaded.
InitWith(frames, configs, sizes, files) ==
    /\ config \in configs
    /\ frame \in frames
    /\ size \in sizes
    /\ gen = 1
    /\ store = << >>
    /\ view = NoView
    /\ pc = "dirty"
    /\ stringifier_file \in files
    /\ custom_stringifier_dict = {}
    /\ prompts = 0
    /\ widget = NoWidget
    /\ maxcol = 0
    /\ drawn = NotDrawn

\* The same where no display type names a stringifier file.
InitOf(frames, configs, sizes) == InitWith(frames, configs, sizes, {"unreadable"})

DefaultConfig ==
    [stringifier |-> "type", default_variables_access_level |-> "public",
     wrap_variables |-> TRUE]

AccessConfigs ==
    { [DefaultConfig EXCEPT !.default_variables_access_level = a] :
        a \in AccessLevels }

\* The largest store (see Weight) of each specification.
MaxChanges == 2
MaxExpanded == 3
MaxObjectChanges == 2
MaxStringChanges == 2
MaxPathChanges == 2

\* Frame assembly: expansion and pinning of the nodes of a frame with a
\* return value, watches and locals.
Init == InitOf({"assembly"}, {DefaultConfig}, {0})
Next ==
    \/ ToggleDetail(VisiblePaths, MaxChanges)
    \/ TogglePin(VisiblePaths, MaxChanges)
    \/ Refresh
Spec == Init /\ [][Next]_vars

\* Pagination: a list, a set or a mapping of 0..BigN elements, or mappings
\* with a key that cannot be resolved; the user expands and collapses the
\* roots and the continuation markers.
InitPage == InitOf({"list", "set", "map", "failing"}, {DefaultConfig}, 0..BigN)
NextPage ==
    \/ ToggleDetail(ExpanderPaths, MaxExpanded)
    \/ Refresh
SpecPage == InitPage /\ [][NextPage]_vars

\* Generic objects under each default access level; the user expands nodes
\* and changes the access level and the method filter of the roots.
InitObj == InitOf({"objects"}, AccessConfigs, {0})
NextObj ==
    \/ ToggleDetail(VisiblePaths, MaxObjectChanges)
    \/ ToggleMethods(RootPaths, MaxObjectChanges)
    \/ SetAccessLevel(RootPaths, MaxObjectChanges)
    \/ Refresh
SpecObj == InitObj /\ [][NextObj]_vars

\* Stringifiers: values whose conversions fail, under each display type and
\* with each kind of stringifier file.
InitStr == InitWith({"strings"}, {DefaultConfig}, {0}, StringifierFiles)
NextStr ==
    \/ SetDisplayType(RootPaths, MaxStringChanges)
    \/ ToggleDetail(RootPaths, MaxStringChanges)
    \/ Refresh
    \/ HitEnter
SpecStr == InitStr /\ [][NextStr]_vars

\* Identity paths and the records behind them, while the debuggee runs on.
InitPath == InitOf({"paths"}, {DefaultConfig}, {0})
NextPath ==
    \/ ToggleDetail(VisiblePaths, MaxPathChanges)
    \/ ToggleWrap(RootPaths, MaxPathChanges)
    \/ ToggleHighlight(RootPaths, MaxPathChanges)
    \/ Resume
    \/ Refresh
SpecPath == InitPath /\ [][NextPath]_vars

\* Values that contain themselves: an object, and a list of a size on either
\* side of a page or of the largest size; the user expands and collapses the
\* nodes and the continuation markers on screen.
MaxCycleChanges == 3
CycleSizes == {0, PageSize - 1, PageSize, BigN}
InitCycle == InitOf({"cycles"}, {DefaultConfig}, CycleSizes)
NextCycle ==
    \/ ToggleDetail(VisiblePaths, MaxCycleChanges)
    \/ Refresh
SpecCycle == InitCycle /\ [][NextCycle]_vars

\* Rendering: one node of every shape (a label, a value, or both; narrow and
\* double-width characters), at every nesting depth and width, drawn as the
\* session default of wrap_variables says.
MaxLabelLen == 4
MaxValueLen == 3
MaxNesting == 2
MaxCol == 12

RowsCalled ==
    /\ widget # NoWidget
    /\ drawn' = [op |-> "rows", out |-> rows(widget, maxcol)]
    /\ UNCHANGED <<config, frame, size, gen, store, view, pc, stringifier_file,
                   custom_stringifier_dict, prompts, widget, maxcol>>

RenderCalled ==
    /\ widget # NoWidget
    /\ \E focus \in BOOLEAN :
            drawn' = [op |-> "render", focus |-> focus,
                      out |-> render(widget, maxcol, focus)]
    /\ UNCHANGED <<config, frame, size, gen, store, view, pc, stringifier_file,
                   custom_stringifier_dict, prompts, widget, maxcol>>

\* The texts of at most n characters.
Texts(n) == UNION { [1..k -> {NarrowChar, WideChar}] : k \in 0..n }

WrapConfigs == { [DefaultConfig EXCEPT !.wrap_variables = b] : b \in BOOLEAN }

InitRender ==
    /\ config \in WrapConfigs
    /\ frame = "assembly" /\ size = 0 /\ gen = 1
    /\ store = << >> /\ view = NoView /\ pc = "dirty"
    /\ stringifier_file = "unreadable" /\ custom_stringifier_dict = {}
    /\ prompts = 0
    /\ maxcol \in 1..MaxCol
    /\ \E var_label \in Texts(MaxLabelLen) \cup {None},
          value_str \in Texts(MaxValueLen) \cup {None},
          level \in 0..MaxNesting :
            /\ var_label # None \/ value_str # None
            /\ widget = VariableWidget(
                            Emit(level - 1, var_label, value_str, None, None),
                            None, None, InspectInfo(config))
    /\ drawn = NotDrawn
NextRender == RowsCalled \/ RenderCalled
SpecRender == InitRender /\ [][NextRender]_vars

-----------------------------------------------------------------------------
(* Properties of the assembled view (specification Spec) *)

\* The locals and the heap the view of this state was made from.
Names == [i \in 1..Len(Frames[frame].locals) |-> Frames[frame].locals[i].name]
TheHeap == Heap(gen, size)

\* The four blocks the call of this state builds, each from its own walker.
ReturnBlock ==
    ReturnWidgets(config, store,
                  WalkReturn(config, store, TheHeap, Frames[frame].locals, Names).calls)
WatchBlock ==
    WatchWidgetList(config, store, Frames[frame].watches,
                    WalkWatches(config, store, TheHeap, Frames[frame].watches), 1)
MainWalker ==
    TopAndMainAddAll(config, store,
        LoopOf(WalkLocals(config, store, TheHeap, Frames[frame].locals,
                          SortNames(Names, TRUE))).out.calls)
MainBlock == MainWalker.main_widget_list
TopBlock == MainWalker.top_widget_list

\* A block followed by the separator, or nothing when the block is empty.
Separated(block) == IF block = <<>> THEN <<>> ELSE block \o <<SEPARATOR>>

\* The widgets of a block.
Range(block) == { block[k] : k \in 1..Len(block) }

\* The labels of the root widgets of a block, in order.
IsRoot(w) == w.nesting_level = 0
RootLabels(block) ==
    LET roots == SelectSeq(block, IsRoot)
    IN  [k \in 1..Len(roots) |-> roots[k].var_label]

\* What C1 says of a result list built from the blocks ret, top, watch, main.
BlocksInOrder(result, ret, top, watch, main, roots) ==
    /\ result = ret \o Separated(top) \o Separated(watch) \o main
    /\ { roots[k] : k \in 1..Len(roots) }
            = { Names[i] : i \in { j \in 1..Len(Names) : ~IsDunder(Names[j]) } }
    /\ \A i, j \in 1..Len(roots) :
            i < j => /\ roots[i] # roots[j]
                     /\ ~StrLess(Lower(roots[j]), Lower(roots[i]))
    /\ \A w \in Range(top) \cup Range(watch) \cup Range(main) :
            w.var_label # n_return
    /\ RootLabels(ret) = << <<"R", "e", "t", "u", "r", "n">> >>
    /\ ret[1].attr_prefix = <<"return">>

\* C1: the view lists the return-value block, then the pinned copies and a
\* separator when anything is pinned, then the watch block and a separator
\* when there is a watch, then the main tree; the roots of the main tree are
\* exactly the locals whose names are not dunder names, each once, in
\* case-insensitive order of their names; the local __return__ is shown in
\* the return block alone.
C1_BlockOrder ==
    (pc = "shown" /\ ~view.raised) =>
        BlocksInOrder(view.result, ReturnBlock, TopBlock, WatchBlock, MainBlock,
                      RootLabels(MainBlock))

\* A view with all four blocks: an expanded return value, a pinned local.
C1_Witness ==
    /\ pc = "shown" /\ ~view.raised
    /\ Len(ReturnBlock) > 1
    /\ TopBlock # <<>> /\ WatchBlock # <<>> /\ MainBlock # <<>>
    /\ Len(SelectSeq(view.result, LAMBDA w : w = SEPARATOR)) = 2

-----------------------------------------------------------------------------
(* Properties of pagination (specification SpecPage) *)

\* The local c of the frames list, set and map: its size elements, counted
\* from 0, as the three containers enumerate them.
PagedFrames == {"list", "set", "map"}
ElementLabel(e) ==
    IF frame = "list" THEN Dec(e)
    ELSE IF frame = "set" THEN None
    ELSE Dec(101 + e)
ElementPath(e) ==
    IF frame = "map" THEN <<"c", "[">> \o Dec(101 + e) \o <<"]">>
    ELSE <<"c", "[">> \o Dec(e) \o <<"]">>
ElementText(e) ==
    IF frame = "list" THEN Dec(40 + gen)
    ELSE IF frame = "set" THEN <<ToString(e)>>
    ELSE <<"'", "v", ToString(gen), "'">>

\* Whether the state of a path is expanded.
Expanded(id_path) == id_path \in DOMAIN store /\ store[id_path].show_detail
ContinuationPath(j) == <<"c", ".", "c", "o", "n", "t", "-">> \o Dec(PageSize * j)

\* k: the number of consecutive continuation paths below size that are expanded.
ExpandedPages ==
    Cardinality({ j \in 1..size : /\ PageSize * j < size
                                  /\ \A i \in 1..j : Expanded(ContinuationPath(i)) })

\* C2: below the expanded container c of N elements the view shows the first
\* min(N, 10 * (k + 1)) elements in enumeration order, then one "..." node
\* whose path is c.cont-10(k+1) exactly when 10 * (k + 1) < N, and nothing
\* else; when N = 0 it shows the single leaf "<empty>".
C2_Pagination ==
    (pc = "shown" /\ frame \in PagedFrames /\ Expanded(<<"c">>)) =>
        LET k == ExpandedPages
            m == IF size < PageSize * (k + 1) THEN size ELSE PageSize * (k + 1)
            more == PageSize * (k + 1) < size
            kids == SubSeq(view.result, 2, Len(view.result))
        IN  /\ ~view.raised
            /\ view.result[1].id_path = <<"c">>
            /\ view.result[1].nesting_level = 0
            /\ Len(kids) = IF size = 0 THEN 1 ELSE m + (IF more THEN 1 ELSE 0)
            /\ \A e \in 0..(m - 1) :
                    /\ kids[e + 1].nesting_level = 1
                    /\ kids[e + 1].var_label = ElementLabel(e)
                    /\ kids[e + 1].id_path = ElementPath(e)
                    /\ kids[e + 1].value_str = ElementText(e)
            /\ more => /\ kids[m + 1].nesting_level = 1
                       /\ kids[m + 1].var_label = <<"...">>
                       /\ kids[m + 1].value_str = None
                       /\ kids[m + 1].id_path = ContinuationPath(k + 1)
            /\ size = 0 => /\ kids[1].nesting_level = 1
                           /\ kids[1].var_label = <<"<empty>">>
                           /\ kids[1].id_path = None

\* A mapping of 21 keys with its first continuation expanded: 20 elements
\* and the marker of the second continuation.
C2_Witness ==
    /\ pc = "shown" /\ frame = "map" /\ size = 21
    /\ Expanded(<<"c">>) /\ ExpandedPages = 1
    /\ Len(view.result) = 22
    /\ view.result[22].var_label = <<"...">>

-----------------------------------------------------------------------------
(* Properties of one walk_value call (specification Spec) *)

\* The labels a root walk is tried with: the local names and watch
\* expressions of the frame and every path with a record in the store.
RootLabelsTried ==
    DOMAIN store \cup Range(Names)
        \cup { Frames[frame].watches[i].expression :
                    i \in 1..Len(Frames[frame].watches) }

\* The walk emitted the one node of label, a root, and nothing else.
OneNode(r, label) ==
    /\ ~r.exc
    /\ Len(r.calls) = 1
    /\ r.calls[1].level = 0
    /\ r.calls[1].label = label
    /\ r.calls[1].id_path = label

\* C3: a walk_value call on a primitive value (a number, a text, None),
\* whatever the show_detail of its path, and a walk_value call on a value of
\* any shape whose path has show_detail = FALSE, emit exactly one node.
C3_OneNode ==
    \A label \in RootLabelsTried : \A v \in ValueIds :
        (TheHeap[v].prim \/ ~ReadInfo(config, store, label).show_detail) =>
            OneNode(WalkValue(config, store, TheHeap, -1, label, v, None, None),
                    label)

\* The view shows the primitive local a, whose path is expanded, as one node
\* followed by the next root, and a collapsed list.
C3_Witness ==
    /\ pc = "shown" /\ ~view.raised
    /\ <<"a">> \in DOMAIN store /\ store[<<"a">>].show_detail
    /\ TheHeap["int"].prim /\ ~TheHeap["lst3"].prim
    /\ ~ReadInfo(config, store, <<"b">>).show_detail
    /\ \E k \in 1..(Len(view.result) - 1) :
            /\ view.result[k] # SEPARATOR /\ view.result[k + 1] # SEPARATOR
            /\ view.result[k].id_path = <<"a">>
            /\ view.result[k].nesting_level = 0
            /\ view.result[k + 1].nesting_level = 0
            /\ view.result[k + 1].var_label = <<"A">>

-----------------------------------------------------------------------------
(* Properties of identity paths (specification SpecPath) *)

\* The result of make_var_view on the frame at debuggee progress g.
ResultAt(g) == MakeVarView(config, store, Frames[frame], Heap(g, size)).result

\* The identity paths and the texts of a result list, in order.
PathsOf(result) ==
    [k \in 1..Len(result) |->
        IF result[k] = SEPARATOR THEN <<"-">> ELSE result[k].id_path]
TextsOf(result) ==
    [k \in 1..Len(result) |->
        IF result[k] = SEPARATOR THEN <<"-">> ELSE result[k].value_str]

\* The widget w shows what the record iinfo says.
Reflects(w, iinfo) ==
    /\ w.wrap = iinfo.wrap
    /\ iinfo.highlighted <=> w.attr_prefix = <<"highlighted var">>
    /\ EndsWith(w.value_str, <<"]">>) => iinfo.show_detail
    /\ (iinfo.show_detail /\ w.nesting_level = 0) => EndsWith(w.value_str, <<"]">>)

\* The widgets of result show the records st holds for their paths.
ReflectsStore(result, st) ==
    \A k \in 1..Len(result) :
        (result[k] # SEPARATOR /\ result[k].id_path \in DOMAIN st) =>
            Reflects(result[k], st[result[k].id_path])

\* C4: two walks of the same shapes against the same store, the leaves
\* holding other contents, give the same identity paths in the same order;
\* and a widget whose path has a record in the store (written by a command
\* through the writable lookup before the walk) shows that record.
C4_PathStability ==
    /\ PathsOf(ResultAt(1)) = PathsOf(ResultAt(2))
    /\ pc = "shown" => ReflectsStore(view.result, store)

\* After the debuggee ran on, the view still shows the root b unwrapped and
\* expanded as recorded, and the texts of the two walks differ.
C4_Witness ==
    /\ pc = "shown" /\ gen = 2
    /\ <<"b">> \in DOMAIN store
    /\ ~store[<<"b">>].wrap /\ store[<<"b">>].show_detail
    /\ \E k \in 1..Len(view.result) :
            /\ view.result[k] # SEPARATOR
            /\ view.result[k].id_path = <<"b">>
            /\ ~view.result[k].wrap
            /\ view.result[k + 1].id_path = <<"b", "[", "0", "]">>
    /\ TextsOf(ResultAt(1)) # TextsOf(ResultAt(2))

-----------------------------------------------------------------------------
(* Properties of the store under traversal (specification Spec) *)

\* The paths the view shows that have no record in the store.
ReadWithDefaults == VisiblePaths \ DOMAIN store

\* C5: the store a make_var_view call leaves behind is the store it was
\* given: the same paths with the same records, no record being added for
\* the paths that were looked up and had none.
C5_StoreUnchanged ==
    MakeVarView(config, store, Frames[frame], TheHeap).store = store

\* A view made through the three walkers (a return value, a watch, a pinned
\* local) that shows paths without a record next to recorded ones.
C5_Witness ==
    /\ pc = "shown" /\ ~view.raised
    /\ DOMAIN store # {}
    /\ ReadWithDefaults # {}
    /\ Len(ReturnBlock) > 0 /\ Len(WatchBlock) > 0 /\ Len(TopBlock) > 0
    /\ DOMAIN CurrentView.store = DOMAIN store

-----------------------------------------------------------------------------
(* Properties of the Top/Main walker (specification Spec) *)

\* The add_item calls the Top/Main walker of this state receives, in order.
MainCalls ==
    LoopOf(WalkLocals(config, store, TheHeap, Frames[frame].locals,
                      SortNames(Names, TRUE))).out.calls

\* Path p is path q or lies below it: q, then ".", "[" or "<", then more.
AtOrBelow(p, q) ==
    \/ p = q
    \/ /\ Len(p) > Len(q)
       /\ SubSeq(p, 1, Len(q)) = q
       /\ p[Len(q) + 1] \in {".", "[", "<"}

\* Whether the state of the path of a call has repeated_at_top set.
PinnedItself(call) ==
    call.id_path # None /\ ReadInfo(config, store, call.id_path).repeated_at_top

\* Whether the k-th call is pinned itself or lies at or below the path of
\* a call before it that is.
BelongsAtTop(calls, k) ==
    \/ PinnedItself(calls[k])
    \/ /\ calls[k].id_path # None
       /\ \E j \in 1..(k - 1) :
            PinnedItself(calls[j]) /\ AtOrBelow(calls[k].id_path, calls[j].id_path)

\* The widgets of main whose calls belong at the top, in the order of main.
Copies(calls, main) ==
    LET marked == SelectSeq([k \in 1..Len(main) |->
                                [w |-> main[k], top |-> BelongsAtTop(calls, k)]],
                            LAMBDA m : m.top)
    IN  [k \in 1..Len(marked) |-> marked[k].w]

\* What C6 says of the lists main and top a walker built from calls.
TopAndMain(calls, main, top) ==
    /\ Len(main) = Len(calls)
    /\ \A k \in 1..Len(calls) :
            /\ main[k].id_path = calls[k].id_path
            /\ main[k].var_label = calls[k].label
            /\ main[k].value_str = calls[k].value_str
            /\ main[k].nesting_level = calls[k].level
    /\ top = Copies(calls, main)

\* C6: every node the Top/Main walker is given is in the main list, in
\* order; the top list holds, in the same order, a widget equal to the one
\* in the main list for exactly the nodes whose state has repeated_at_top
\* set or whose path is, or lies below, the path of a node pinned before
\* them in the traversal.
C6_TopAndMain ==
    (pc = "shown" /\ ~view.raised) => TopAndMain(MainCalls, MainBlock, TopBlock)

\* The pinned and expanded list b: its children are at the top without
\* being pinned themselves, the other locals are not.
C6_Witness ==
    /\ pc = "shown" /\ ~view.raised
    /\ Len(TopBlock) = 4 /\ Len(MainBlock) > 4
    /\ TopBlock[1].id_path = <<"b">>
    /\ TopBlock[2].id_path = <<"b", "[", "0", "]">>
    /\ ReadInfo(config, store, <<"b">>).repeated_at_top
    /\ ~ReadInfo(config, store, <<"b", "[", "0", "]">>).repeated_at_top

-----------------------------------------------------------------------------
(* Properties of the class branch (specification SpecObj) *)

\* The walk of the i-th local of the frame, as a root of the main tree.
LocalWalk(i) ==
    WalkValue(config, store, TheHeap, -1, Names[i],
              Frames[frame].locals[i].val, None, None)
LocalState(i) == ReadInfo(config, store, Names[i])
LocalObject(i) == TheHeap[Frames[frame].locals[i].val]

\* A generic object: no primitive, no set, no keys(), no len() with value[0].
Generic(d) == ~d.prim /\ ~d.isset /\ ~KeyIt(d).some

\* The members of d that dir() names, when dir() works.
Members(d) == IF d.dirres = "ok" THEN Range(d.attrs) ELSE {}

\* The members hidden by the access level, the routines left out among the
\* others, and the members that are emitted.
Hidden(d, iinfo) ==
    { a \in Members(d) : HiddenByAccess(iinfo.access_level, a.name) }
LeftOut(d, iinfo) ==
    { a \in Members(d) \ Hidden(d, iinfo) : OmittedMethod(a, iinfo.show_methods) }
Surviving(d, iinfo) == (Members(d) \ Hidden(d, iinfo)) \ LeftOut(d, iinfo)

\* The label of the summary leaf by the priority C7 gives.
SummaryOf(d, iinfo) ==
    IF Hidden(d, iinfo) # {} THEN <<"<omitted private attributes>">>
    ELSE IF LeftOut(d, iinfo) # {} THEN <<"<omitted methods>">>
    ELSE <<"<empty>">>

\* The calls of a root walk after the call for the root itself.
ChildCalls(r) == SubSeq(r.calls, 2, Len(r.calls))

\* The children are one leaf with the given label.
OneLeaf(children, label) ==
    /\ Len(children) = 1
    /\ children[1].label = label
    /\ children[1].level = 1
    /\ children[1].value_str = None

\* C7 as stated: an expanded generic object none of whose members survives
\* the access-level filter and the method filter has exactly one child, the
\* summary leaf: "<omitted private attributes>" when a name was hidden, else
\* "<omitted methods>" when a routine was left out, else "<empty>".
C7_SummaryLeaf ==
    \A i \in 1..Len(Names) :
        ( /\ Generic(LocalObject(i))
          /\ LocalState(i).show_detail
          /\ Surviving(LocalObject(i), LocalState(i)) = {} ) =>
            OneLeaf(ChildCalls(LocalWalk(i)),
                    SummaryOf(LocalObject(i), LocalState(i)))

\* The object h, whose two members are both private, expanded under the
\* access level public: the view shows it without any child.
C7_Witness ==
    /\ pc = "shown" /\ ~view.raised
    /\ LocalState(2).show_detail /\ LocalState(2).access_level = "public"
    /\ Names[2] = <<"h">>
    /\ Surviving(LocalObject(2), LocalState(2)) = {}
    /\ Hidden(LocalObject(2), LocalState(2)) # {}
    /\ ChildCalls(LocalWalk(2)) = <<>>
    /\ \E k \in 1..Len(view.result) :
            /\ view.result[k].id_path = <<"h">>
            /\ k < Len(view.result) => view.result[k + 1].nesting_level = 0

-----------------------------------------------------------------------------
(* Properties of the container loop under failing keys (specification SpecPage) *)

\* The roots of the main tree of a frame without dunder locals: all its
\* locals, in case-insensitive order.
AllRoots == SortNames(Names, TRUE)

\* The items of a keyed container that come before the first one whose
\* value cannot be resolved.
ResolvedBefore(d) ==
    { i \in 1..Len(d.items) : \A j \in 1..i : d.items[j].res = "ok" }

\* After the n children of the root at position k the next root follows;
\* when n = 0 the leaf "<empty>" stands for the children.
NoMoreChildren(result, k, n) ==
    IF n = 0
        THEN /\ k + 1 <= Len(result)
             /\ result[k + 1].var_label = <<"<empty>">>
             /\ result[k + 1].nesting_level = 1
             /\ k + 1 < Len(result) => result[k + 2].nesting_level = 0
        ELSE k + n < Len(result) => result[k + n + 1].nesting_level = 0

\* The view shows local i expanded with, as children, the elements before
\* the first failing key and nothing after them.
KeptChildren(result, i) ==
    \E k \in 1..Len(result) :
        /\ result[k] # SEPARATOR
        /\ result[k].id_path = Names[i]
        /\ result[k].nesting_level = 0
        /\ \A e \in ResolvedBefore(LocalObject(i)) :
                /\ k + e <= Len(result)
                /\ result[k + e].nesting_level = 1
                /\ result[k + e].var_label = LocalObject(i).items[e].key
        /\ NoMoreChildren(result, k, Cardinality(ResolvedBefore(LocalObject(i))))

\* The keyed locals of the frame, expanded, in which a key fails within the
\* first page.
FailingLocals ==
    { i \in 1..Len(Names) :
        /\ LocalState(i).show_detail
        /\ LocalObject(i).keysres = "ok"
        /\ \E j \in 1..Len(LocalObject(i).items) :
                j <= PageSize /\ LocalObject(i).items[j].res # "ok" }

\* C8 as stated: when the value of a key of an expanded container cannot be
\* resolved, whatever the failure, make_var_view still returns; the view
\* keeps the children emitted before the failing key, shows no further child
\* of that container, and goes on with the other roots.
C8_FailureContained ==
    (pc = "shown" /\ frame = "failing") =>
        /\ ~view.raised
        /\ RootLabels(SubSeq(view.result, Len(WatchBlock) + 2, Len(view.result)))
                = AllRoots
        /\ \A i \in FailingLocals : KeptChildren(view.result, i)

\* The mapping w, whose __getitem__ raises a ValueError for its third key,
\* is expanded: the exception leaves make_var_view.
C8_Witness ==
    /\ pc = "shown" /\ frame = "failing" /\ size = 2
    /\ ReadInfo(config, store, <<"w">>).show_detail
    /\ LocalObject(2).items[3].res = "exc"
    /\ LocalWalk(2).exc
    /\ Len(LocalWalk(2).calls) = 3
    /\ view.raised

\* The part of C8 the code keeps: a key whose lookup raises a LookupError or
\* a TypeError ends the enumeration of its container and nothing else.
C8_LookupErrorContained ==
    (pc = "shown" /\ frame = "failing" /\ ~view.raised) =>
        /\ RootLabels(SubSeq(view.result, Len(WatchBlock) + 2, Len(view.result)))
                = AllRoots
        /\ \A i \in FailingLocals : KeptChildren(view.result, i)

-----------------------------------------------------------------------------
(* Properties of the stringifiers (specification SpecStr) *)

BuiltinDisplayTypes == {"type", "repr", "str"}

\* The text of a node whose stringifier failed: the type summary, the
\* error marker naming the display type, and the marker of an expanded node.
FailureText(d, iinfo) ==
    TypeStringifier(d) \o <<" (!! ", iinfo.display_type, " error !!)">>
        \o (IF iinfo.show_detail THEN <<" [">> \o Marker(iinfo) \o <<"]">>
            ELSE <<>>)

\* The walk of local i, had its display type been type.
LocalWalkAsType(i) ==
    WalkValue(config,
              IF Names[i] \in DOMAIN store
                  THEN [store EXCEPT ![Names[i]].display_type = "type"]
                  ELSE store,
              TheHeap, -1, Names[i], Frames[frame].locals[i].val, None, None)

\* The walk r of a local whose stringifier fails: it is not left by an
\* exception, its node carries the failure text, and its children are those
\* of the walk as_type.
FailureShown(r, as_type, d, iinfo) ==
    /\ ~r.exc
    /\ r.calls[1].value_str = FailureText(d, iinfo)
    /\ ChildCalls(r) = ChildCalls(as_type)

\* C9 as stated: for the display types type, repr and str the function
\* get_stringifier returns yields a text for every value; and a non-primitive
\* value whose stringifier fails during walk_value is shown with the type
\* summary and the error marker, the walk going on below it.
C9_AlwaysText ==
    /\ \A t \in BuiltinDisplayTypes : \A v \in ValueIds :
            ~Stringify(t, TheHeap[v]).raised
    /\ \A i \in 1..Len(Names) :
            ( /\ ~LocalObject(i).prim
              /\ Stringify(LocalState(i).display_type, LocalObject(i)).raised ) =>
                FailureShown(LocalWalk(i), LocalWalkAsType(i), LocalObject(i),
                             LocalState(i))

\* The built-in stringifiers on the value d: that of type never fails and
\* gives the type summary; those of repr and str fail exactly when the
\* conversion raises, and give its text otherwise.
StringifiedAsConverted(d) ==
    /\ ~Stringify("type", d).raised
    /\ Stringify("type", d).text = TypeStringifier(d)
    /\ Stringify("repr", d).raised <=> d.reprres = "raise"
    /\ Stringify("str", d).raised <=> d.strres = "raise"
    /\ d.reprres = "ok" => Stringify("repr", d).text = d.reprtext
    /\ d.strres = "ok" => Stringify("str", d).text = d.strtext

\* C9: the stringifier of display type type yields a text for every value;
\* those of repr and str yield the text of repr(value) and str(value) and
\* fail exactly when that conversion of the value raises; and when the
\* stringifier selected for a non-primitive value fails during walk_value,
\* whatever the display type, the node is emitted with the type summary and
\* the error marker, and the walk goes on below it as if it had not failed.
C9_Stringifiers ==
    /\ \A v \in ValueIds : StringifiedAsConverted(TheHeap[v])
    /\ pc = "shown" => ~view.raised
    /\ \A i \in 1..Len(Names) :
            ( /\ ~LocalObject(i).prim
              /\ Stringify(LocalState(i).display_type, LocalObject(i)).raised ) =>
                FailureShown(LocalWalk(i), LocalWalkAsType(i), LocalObject(i),
                             LocalState(i))

\* The object s, whose __repr__ raises, shown under display type repr and
\* expanded: the type name with the error marker, and its member below it.
C9_Witness ==
    /\ pc = "shown" /\ ~view.raised
    /\ Names[1] = <<"s">>
    /\ LocalObject(1).reprres = "raise"
    /\ LocalState(1).display_type = "repr" /\ LocalState(1).show_detail
    /\ \E k \in 1..(Len(view.result) - 1) :
            /\ view.result[k] # SEPARATOR /\ view.result[k + 1] # SEPARATOR
            /\ view.result[k].id_path = <<"s">>
            /\ view.result[k].value_str
                    = <<"Sour", " (!! ", "repr", " error !!)", " [", "pub", "]">>
            /\ view.result[k + 1].id_path = <<"s", ".", "a">>

-----------------------------------------------------------------------------
(* Properties of the members shown (specification SpecObj) *)

\* The calls of a walk for the children of its root, and the names of the
\* members they show (their labels without the leading ".").
RootChildren(r) == SelectSeq(ChildCalls(r), LAMBDA c : c.level = 1)
MemberNames(children) ==
    [k \in 1..Len(children) |-> SubSeq(children[k].label, 2, Len(children[k].label))]

\* What the access level lets through, as C10 words it.
PassesAccess(access_level, name) ==
    CASE access_level = "public"  -> name[1] # "_"
      [] access_level = "private" ->
            ~(StartsWith(name, <<"_", "_">>) /\ EndsWith(name, <<"_", "_">>))
      [] access_level = "all"     -> TRUE

\* The members of d that C10 says are shown.
Shown(d, iinfo) ==
    { a \in Members(d) :
        /\ PassesAccess(iinfo.access_level, a.name)
        /\ (a.res = "ok" /\ a.routine) => iinfo.show_methods }

\* The children of a root at root_path are the members shown of d, each
\* once, as ".name" at root_path followed by ".name", in ascending order of
\* their names.
MembersInOrder(children, names, root_path, d, iinfo) ==
    /\ \A k \in 1..Len(children) :
            /\ children[k].label[1] = "."
            /\ children[k].id_path = root_path \o children[k].label
    /\ Range(names) = { a.name : a \in Shown(d, iinfo) }
    /\ \A j, k \in 1..Len(names) : j < k => StrLess(names[j], names[k])

\* The positions in calls of the nodes of the members of d that cannot be
\* resolved, the root being at path.
ErrorNodes(calls, d, path) ==
    { k \in 1..Len(calls) :
        /\ calls[k].level = 1
        /\ \E a \in Members(d) :
                a.res # "ok" /\ calls[k].id_path = AttrChildPath(path, a.name) }

\* The node at position k shows the sentinel of a failed resolution.
ShowsSentinel(calls, k) == StartsWith(calls[k].value_str, <<"<error>">>)

\* The node at position k of calls has no child.
IsLeaf(calls, k) == k = Len(calls) \/ calls[k + 1].level <= calls[k].level

\* The nodes of the members of d that cannot be resolved show the sentinel
\* and have no child.
SentinelLeaves(calls, d, path) ==
    \A k \in ErrorNodes(calls, d, path) :
        ShowsSentinel(calls, k) /\ IsLeaf(calls, k)

\* The nodes of the members of d that cannot be resolved show the sentinel,
\* and have no child unless their own path is expanded.
SentinelNodes(calls, d, path) ==
    \A k \in ErrorNodes(calls, d, path) :
        /\ ShowsSentinel(calls, k)
        /\ ~ReadInfo(config, store, calls[k].id_path).show_detail => IsLeaf(calls, k)

\* The walk r of an object d shows its members as C10 says.
MembersShown(r, children, d, iinfo) ==
    /\ ~r.exc
    /\ MembersInOrder(children, MemberNames(children), r.calls[1].id_path, d, iinfo)

\* The locals that are expanded generic objects with members.
ExpandedObjects ==
    { i \in 1..Len(Names) :
        /\ Generic(LocalObject(i)) /\ LocalState(i).show_detail
        /\ Members(LocalObject(i)) # {} }

\* C10: the member children of an expanded generic object are in sorted
\* name order; under public none starts with "_", under private exactly
\* the names that start and end with "__" are hidden, under all none is
\* hidden; a member that resolves to a routine is shown only when
\* show_methods is set; and a member whose resolution fails is a leaf
\* showing the error sentinel: a node without children.
C10_ErrorLeaf ==
    \A i \in ExpandedObjects :
        /\ MembersShown(LocalWalk(i), RootChildren(LocalWalk(i)), LocalObject(i),
                        LocalState(i))
        /\ SentinelLeaves(LocalWalk(i).calls, LocalObject(i), Names[i])

\* What the code keeps of it: the order and the filters as stated, and for
\* a member whose resolution fails a node with the error sentinel that has
\* no child as long as the state of its own path has show_detail unset.
MembersAsWalked ==
    \A i \in ExpandedObjects :
        /\ MembersShown(LocalWalk(i), RootChildren(LocalWalk(i)), LocalObject(i),
                        LocalState(i))
        /\ SentinelNodes(LocalWalk(i).calls, LocalObject(i), Names[i])

\* The object o expanded, and the path o.z of its member z, whose getattr
\* fails, expanded too: the node of z shows the error sentinel and is
\* followed by a child of its own, the member __class__ of the
\* WatchEvalError that line 504 puts in the place of the value.
C10_Witness ==
    /\ pc = "shown" /\ ~view.raised
    /\ Names[1] = <<"o">> /\ 1 \in ExpandedObjects
    /\ \E a \in Members(LocalObject(1)) : a.name = n_z /\ a.res # "ok"
    /\ ReadInfo(config, store, <<"o", ".", "z">>).show_detail
    /\ \E k \in 1..(Len(view.result) - 1) :
            /\ view.result[k].id_path = <<"o", ".", "z">>
            /\ StartsWith(view.result[k].value_str, <<"<error>">>)
            /\ view.result[k].nesting_level = 1
            /\ view.result[k + 1].nesting_level = 2
            /\ view.result[k + 1].id_path =
                    AttrChildPath(<<"o", ".", "z">>, Dunder(n_class))

-----------------------------------------------------------------------------
(* Properties of the renderer (specification SpecRender) *)

\* The label and the value of the widget as texts, and "label: value".
LabelText == OrEmpty(widget.var_label)
ValueText == OrEmpty(widget.value_str)
AllText == LabelText \o <<":", " ">> \o ValueText

\* I, the indentation width, and E, the columns left of maxcol after it.
IndentWidth == Len(Prefix(widget.nesting_level))
Room == maxcol - IndentWidth

\* The case of C11: a wrapping widget whose "label: value" is wider than the
\* room it is given, which is at least 3 columns.
MustWrap ==
    /\ widget # NoWidget /\ widget.wrap
    /\ Room >= 3
    /\ Room < text_width(LabelText) + text_width(ValueText) + 2

\* ceil(a / b) for a >= 0 and b > 0
CeilDiv(a, b) == (a + b - 1) \div b

\* The lengths of the color spans of one line, added up.
RECURSIVE SpanSum(_)
SpanSum(spans) == IF spans = <<>> THEN 0 ELSE Head(spans)[2] + SpanSum(Tail(spans))

\* The layout of C11 for the text all in room e behind the indentation
\* prefix: the number of lines, the first line holding the first e
\* characters, continuation line k the next e - 2 characters (the last one
\* what is left of them) after the prefix and two more columns, one list of
\* color spans per line, and the spans of a line adding up to its width.
WrappedLayout(out, all, prefix, e) ==
    /\ ~out.raised
    /\ Len(out.text) = CeilDiv(text_width(all) - e, e - 2) + 1
    /\ out.text[1] = prefix \o SubSeq(all, 1, e)
    /\ \A k \in 2..Len(out.text) :
          /\ out.text[k] = prefix \o <<" ", " ">>
                \o SubSeq(all, e + (k - 2) * (e - 2) + 1,
                          IF e + (k - 1) * (e - 2) < Len(all)
                              THEN e + (k - 1) * (e - 2) ELSE Len(all))
          /\ Len(out.text[k]) > Len(prefix) + 2
    /\ Len(out.attr) = Len(out.text)
    /\ \A k \in 1..Len(out.text) :
          k <= Len(out.attr) => SpanSum(out.attr[k]) = text_width(out.text[k])

\* C11 as stated: in wrapping mode, for a node with label width L, value
\* width V, indentation width I and width W with E = W - I >= 3 and
\* E < L + V + 2, render produces ceil((L + V + 2 - E) / (E - 2)) + 1 lines,
\* the first holding E characters of "label: value", each continuation line
\* E - 2 characters after 2 extra indent columns, one color-span list per
\* line, and on every line the span lengths add up to the line's width.
C11_WrappedLayout ==
    (drawn.op = "render" /\ MustWrap) =>
        WrappedLayout(drawn.out, AllText, Prefix(widget.nesting_level), Room)

\* Whether a text has a double-width character.
HasWide(text) == \E k \in 1..Len(text) : text[k] = WideChar

\* The part of C11 the code keeps: the layout of C11 for a node none of
\* whose characters is double-width.
C11_NarrowLayout ==
    (drawn.op = "render" /\ MustWrap /\ ~HasWide(AllText)) =>
        WrappedLayout(drawn.out, AllText, Prefix(widget.nesting_level), Room)

\* The label of one double-width character and the value of two, five
\* columns wide: eight columns of text in three characters, which render
\* puts on one line and gives two lists of color spans.
C11_Witness ==
    /\ drawn.op = "render" /\ MustWrap
    /\ widget.var_label = <<WideChar>> /\ widget.value_str = <<WideChar, WideChar>>
    /\ widget.nesting_level = 0 /\ maxcol = 5
    /\ ~drawn.out.raised
    /\ Len(drawn.out.text) = 1 /\ Len(drawn.out.attr) = 2

\* What rows reported (reported) against what render draws (canvas) for the
\* same widget w and width: the same number of lines; wrapping, the number
\* of wrapped lines; not wrapping, 2 when render splits the node in a label
\* line and a value line and 1 otherwise.
RowsAsRendered(reported, canvas, w, lines, split) ==
    (~reported.raised /\ ~canvas.raised) =>
        /\ reported.rows = Len(canvas.text)
        /\ w.wrap => reported.rows = Len(lines.text)
        /\ ~w.wrap => reported.rows = (IF split THEN 2 ELSE 1)

\* C12 as stated: for every node, with or without a label, with or without
\* a value, and every width, the row count rows() reports equals the number
\* of lines render() produces for that width.
C12_RowsMatchRender ==
    drawn.op = "rows" =>
        RowsAsRendered(drawn.out, render(widget, maxcol, FALSE), widget,
                       get_wrapped_lines(widget, maxcol),
                       TwoLineSplit(widget, maxcol))

\* The part of C12 the code keeps: rows() reports the number of lines
\* render() produces for every wrapping node, and for every non-wrapping
\* node that has both a label and a value.
C12_RowsOfLabelledValues ==
    ( /\ drawn.op = "rows"
      /\ widget.wrap \/ (widget.var_label # None /\ widget.value_str # None) ) =>
        RowsAsRendered(drawn.out, render(widget, maxcol, FALSE), widget,
                       get_wrapped_lines(widget, maxcol),
                       TwoLineSplit(widget, maxcol))

\* A leaf with the label aaa and no value, not wrapping, four columns wide:
\* rows reports 2, render draws the one line of the label.
C12_Witness ==
    /\ drawn.op = "rows" /\ ~widget.wrap
    /\ widget.var_label = <<NarrowChar, NarrowChar, NarrowChar>>
    /\ widget.value_str = None
    /\ widget.nesting_level = 0 /\ maxcol = 4
    /\ ~drawn.out.raised /\ drawn.out.rows = 2
    /\ render(widget, maxcol, FALSE).text = << <<NarrowChar, NarrowChar, NarrowChar>> >>

-----------------------------------------------------------------------------
(* Properties of the walk of values that contain themselves                *)
(* (specification SpecCycle)                                               *)

\* The records of the store that are expanded, and how many they are.
ExpandedRecords == { p \in DOMAIN store : store[p].show_detail }

\* Path p begins with path q.
BeginsWith(p, q) == Len(p) >= Len(q) /\ SubSeq(p, 1, Len(q)) = q

\* The expanded continuation records of the container at path p.
ExpandedContinuations(p) ==
    { q \in ExpandedRecords :
        /\ Len(q) > Len(p) + 6
        /\ BeginsWith(q, p \o <<".", "c", "o", "n", "t", "-">>)
        /\ \A i \in (Len(p) + 7)..Len(q) :
                q[i] \in {"0", "1", "2", "3", "4", "5", "6", "7", "8", "9"} }

\* The node below which call k of calls was emitted: the last one before it
\* that is one level up.
ParentOf(calls, k) ==
    CHOOSE j \in 1..(k - 1) :
        /\ calls[j].level = calls[k].level - 1
        /\ \A i \in (j + 1)..(k - 1) : calls[i].level >= calls[k].level

\* The parent of every call of calls (0 for the root).
Parents(calls) ==
    [ k \in 1..Len(calls) |-> IF k = 1 THEN 0 ELSE ParentOf(calls, k) ]

\* The elements emitted directly below call j: its children that have an
\* identity path and are no continuation marker.
ElementsBelow(calls, parent, j) ==
    { k \in (j + 1)..Len(calls) :
        /\ parent[k] = j
        /\ calls[k].id_path # None
        /\ calls[k].label # <<"...">> }

\* What C13 says of the add_item calls of one walk, parent giving the
\* parent of each, n being the number of expanded records of the store and
\* paged whether the value walked is a container: no node is deeper than n;
\* a node below the root has an expanded parent, whose path its own path
\* (if it has one) begins with and is longer than; a container shows at most
\* PageSize elements, and PageSize more per expanded continuation record of
\* its path; and the walk emits at most 1 + (PageSize + 1) * n nodes.
BoundedWalk(calls, parent, n, paged) ==
    /\ calls[1].level = 0
    /\ Len(parent) = Len(calls)
    /\ \A k \in 2..Len(calls) :
          /\ calls[k].level \in 1..n
          /\ calls[parent[k]].id_path \in ExpandedRecords
          /\ calls[k].id_path # None =>
                /\ BeginsWith(calls[k].id_path, calls[parent[k]].id_path)
                /\ Len(calls[k].id_path) > Len(calls[parent[k]].id_path)
    /\ paged =>
          \A j \in 1..Len(calls) :
              Cardinality(ElementsBelow(calls, parent, j))
                  <= PageSize * (1 + Cardinality(ExpandedContinuations(calls[j].id_path)))
    /\ Len(calls) <= 1 + (PageSize + 1) * n

\* The walk r of a local is not left by an exception and is bounded.
EndsBounded(r, paged) ==
    /\ ~r.exc
    /\ BoundedWalk(r.calls, Parents(r.calls), Cardinality(ExpandedRecords), paged)

\* C13: with a finite store the walk of a value that contains itself ends:
\* a node below the root is emitted only if the state of its parent's path
\* is expanded, every descent lengthens the identity path, a container
\* contributes at most 10 children per expanded continuation record, and so
\* the depth and the number of the emitted nodes are bounded by the number
\* of expanded records of the store.
C13_BoundedWalk ==
    frame = "cycles" =>
        /\ pc = "shown" => ~view.raised
        /\ \A i \in 1..Len(Names) :
              EndsBounded(LocalWalk(i), KeyIt(LocalObject(i)).some)

\* The list c that contains itself, expanded with its first element c[0]
\* (the list again) and that one's continuation: the view shows c three
\* times, its elements twice, and the second page below c[0] only.
C13_Witness ==
    /\ frame = "cycles" /\ pc = "shown" /\ size > PageSize
    /\ ExpandedRecords = { <<"c">>, <<"c", "[", "0", "]">>,
                           <<"c", "[", "0", "]", ".", "c", "o", "n", "t", "-", "1", "0">> }
    /\ \E k \in 1..Len(view.result) :
          /\ view.result[k].id_path = <<"c", "[", "0", "]", "[", "0", "]">>
          /\ view.result[k].nesting_level = 2
    /\ \E k \in 1..Len(view.result) :
          /\ view.result[k].id_path = <<"c", "[", "0", "]", "[", "1", "0", "]">>
          /\ view.result[k].nesting_level = 2
    /\ \E k \in 1..Len(view.result) :
          /\ view.result[k].id_path = <<"c", ".", "c", "o", "n", "t", "-", "1", "0">>
          /\ view.result[k].var_label = <<"...">>

====
